---------------------------- MODULE Spec2Model ----------------------------
(***************************************************************************)
(* ragtgbot: the MessageBuffer (internal/buffer), the chunking loop of the *)
(* backup uploader (cmd/uploadbackup) and the message handler of the bot   *)
(* (cmd/tgbot).                                                            *)
(*                                                                         *)
(* Go strings are modelled exactly, in run-length form: a string is a      *)
(* sequence of runs [c |-> character, n |-> repetitions], adjacent runs    *)
(* carrying different characters.  "" is <<>>, len(s) is the sum of the    *)
(* repetitions, s + t joins the two sequences and merges equal characters  *)
(* at the seam.  A 500-character text is therefore one or two runs.        *)
(***************************************************************************)
EXTENDS Integers, Sequences, FiniteSets, TLC

VARIABLES
    msgBuffer,      \* the MessageBuffer: [Text, Username, Size]
    clears,         \* history: number of msgBuffer.Clear() calls made so far
    \* the backup uploader (Spec)
    messages,       \* backup.Messages, the parsed transcript
    i,              \* position of the range loop over backup.Messages (1-based)
    pc,             \* "loop" or "done": where main of uploadbackup stands
    lastMessageID,  \* main's lastMessageID
    lastTimestamp,  \* main's lastTimestamp
    flushLog,       \* the calls of processBuffer, in order
    inBuffer,       \* history: positions of the messages added since the last Clear
    printed,        \* the error lines main has written with fmt.Printf, in order
    build,          \* which copy of Message.GetText is compiled in
    processedChunks, \* what the test harness returned for the same messages
    \* one caller of the buffer (SpecBuf)
    calls,          \* number of Add and Clear calls made
    added,          \* history: <<username, text>> of the Add calls since the last Clear
    ret,            \* what the last call returned: [op, value]
    \* goroutines sharing the buffer (SpecConc)
    mutex,          \* b.mutex: TRUE while locked
    gpc,            \* where each goroutine stands
    remaining,      \* calls each goroutine has still to make
    local,          \* what each goroutine has loaded from the buffer's fields
    completed,      \* history: the Add and Clear calls in the order they returned
    result,         \* what the reader's GetContents returned, <<>> before that
    \* the bot's OnText handler (SpecBot)
    allowedGroups,  \* main's allowedGroups, the chat IDs parsed from TG_GROUP_LIST
    now,            \* time.Now(), one tick per message handled
    update,         \* the message the handler ran on last: [chat, sender, text]
    requests,       \* the calls that run made to the services, in order
    sent,           \* the texts that run passed to c.Send
    returned,       \* what that run returned: "nil" or "error" ("none" before)
    points,         \* the points of the Qdrant collection
    \* handlers running side by side (SpecWorkers)
    hpc,            \* where each running handler stands in the storage branch
    pointID,        \* each running handler's local id
    \* main of the bot from its start to the first message (SpecStartup)
    env,            \* the environment: [token, openaiKey, groupsList]
    mpc,            \* where main stands
    collection,     \* the chat_history collection in Qdrant: absent, or its configuration
    startupCalls    \* the requests createQdrantCollection has made, in order

bufVars == <<msgBuffer, clears>>

backupVars ==
    <<messages, i, pc, lastMessageID, lastTimestamp, flushLog, inBuffer, printed, build,
      processedChunks>>

seqVars == <<calls, added, ret>>

concVars == <<mutex, gpc, remaining, local, completed, result>>

startVars == <<env, mpc, collection, startupCalls>>

botVars ==
    <<allowedGroups, now, update, requests, sent, returned, points, hpc, pointID,
      startVars>>

vars == <<bufVars, backupVars, seqVars, concVars, botVars>>

-----------------------------------------------------------------------------
(* Go strings *)

EmptyStr == <<>>

Run(c, n) == IF n = 0 THEN <<>> ELSE <<[c |-> c, n |-> n]>>

\* s + t
StrCat(s, t) ==
    IF s = <<>> THEN t
    ELSE IF t = <<>> THEN s
    ELSE IF s[Len(s)].c = t[1].c
         THEN SubSeq(s, 1, Len(s) - 1)
              \o <<[c |-> t[1].c, n |-> s[Len(s)].n + t[1].n]>>
              \o Tail(t)
         ELSE s \o t

RECURSIVE StrLen(_)
\* len(s)
StrLen(s) == IF s = <<>> THEN 0 ELSE s[1].n + StrLen(Tail(s))

\* fmt.Sprintf("%s: %s", username, text)
SprintfLine(username, text) ==
    StrCat(StrCat(username, StrCat(Run(":", 1), Run(" ", 1))), text)

\* fmt.Sprintf("\n%s: %s", username, text)
SprintfNextLine(username, text) ==
    StrCat(Run("\n", 1), SprintfLine(username, text))

RECURSIVE GoString(_)
\* the Go string that a string literal denotes
GoString(literal) ==
    IF Len(literal) = 0 THEN EmptyStr
    ELSE IF Len(literal) = 1 THEN Run(literal, 1)
    ELSE StrCat(GoString(SubSeq(literal, 1, Len(literal) \div 2)),
                GoString(SubSeq(literal, Len(literal) \div 2 + 1, Len(literal))))

RECURSIVE Chars(_)
\* the bytes of s, one by one
Chars(s) ==
    IF s = <<>> THEN <<>>
    ELSE [k \in 1..s[1].n |-> s[1].c] \o Chars(Tail(s))

RECURSIVE FromChars(_)
\* the string made of the given bytes
FromChars(cs) ==
    IF cs = <<>> THEN EmptyStr ELSE StrCat(Run(Head(cs), 1), FromChars(Tail(cs)))

\* the bytes sub stand in cs from position k on
OccursAt(cs, sub, k) ==
    /\ k + Len(sub) - 1 <= Len(cs)
    /\ SubSeq(cs, k, k + Len(sub) - 1) = sub

\* strings.Contains(s, substr)
Contains(s, substr) ==
    LET cs  == Chars(s)
        sub == Chars(substr)
    IN  \E k \in 1..(Len(cs) + 1) : OccursAt(cs, sub, k)

RECURSIVE ReplaceChars(_, _, _)
\* left to right, every occurrence of old that does not overlap an earlier one
ReplaceChars(cs, old, new) ==
    IF cs = <<>> THEN <<>>
    ELSE IF OccursAt(cs, old, 1)
         THEN new \o ReplaceChars(SubSeq(cs, Len(old) + 1, Len(cs)), old, new)
         ELSE <<Head(cs)>> \o ReplaceChars(Tail(cs), old, new)

\* strings.ReplaceAll(s, old, new) for a non-empty old
ReplaceAll(s, old, new) == FromChars(ReplaceChars(Chars(s), Chars(old), Chars(new)))

IsSpace(ch) == ch \in {" ", "\t", "\n", "\r"}

RECURSIVE TrimLeft(_)
TrimLeft(cs) == IF cs # <<>> /\ IsSpace(Head(cs)) THEN TrimLeft(Tail(cs)) ELSE cs

RECURSIVE TrimRight(_)
TrimRight(cs) ==
    IF cs # <<>> /\ IsSpace(cs[Len(cs)])
    THEN TrimRight(SubSeq(cs, 1, Len(cs) - 1))
    ELSE cs

\* strings.TrimSpace(s)
TrimSpace(s) == FromChars(TrimRight(TrimLeft(Chars(s))))

RECURSIVE Prefix(_, _)
\* s[:n] for n <= len(s)
Prefix(s, n) ==
    IF n = 0 \/ s = <<>> THEN EmptyStr
    ELSE IF s[1].n >= n THEN Run(s[1].c, n)
    ELSE <<s[1]>> \o Prefix(Tail(s), n - s[1].n)

RECURSIVE Join(_, _)
\* strings.Join(elems, sep)
Join(elems, sep) ==
    IF elems = <<>> THEN EmptyStr
    ELSE IF Len(elems) = 1 THEN elems[1]
    ELSE StrCat(elems[1], StrCat(sep, Join(Tail(elems), sep)))

-----------------------------------------------------------------------------
(* internal/buffer: MessageBuffer, each method as the function it computes  *)
(* on the three fields while it holds the mutex                             *)

NewMessageBuffer == [Text |-> EmptyStr, Username |-> EmptyStr, Size |-> 0]

\* BufAdd with Size counting the whole "<username>: <text>" line
BufAdd_CountsLine(b, username, text) ==
    [Text     |-> IF b.Text = EmptyStr
                  THEN SprintfLine(username, text)
                  ELSE StrCat(b.Text, SprintfNextLine(username, text)),
     Username |-> IF b.Text = EmptyStr THEN username ELSE b.Username,
     Size     |-> b.Size + StrLen(SprintfLine(username, text))]

\* BufAdd that puts the new line before the lines held
BufAdd_Prepends(b, username, text) ==
    [Text     |-> IF b.Text = EmptyStr
                  THEN SprintfLine(username, text)
                  ELSE StrCat(SprintfLine(username, text),
                              StrCat(Run("\n", 1), b.Text)),
     Username |-> IF b.Text = EmptyStr THEN username ELSE b.Username,
     Size     |-> b.Size + StrLen(text)]

\* BufAdd that sets the author whenever the author held is ""
BufAdd_IfAuthorEmpty(b, username, text) ==
    [Text     |-> IF b.Text = EmptyStr
                  THEN SprintfLine(username, text)
                  ELSE StrCat(b.Text, SprintfNextLine(username, text)),
     Username |-> IF b.Username = EmptyStr THEN username ELSE b.Username,
     Size     |-> b.Size + StrLen(text)]

\* Add: lines 22-33
BufAdd(b, username, text) ==
    [Text     |-> IF b.Text = EmptyStr
                  THEN SprintfLine(username, text)
                  ELSE StrCat(b.Text, SprintfNextLine(username, text)),
     Username |-> IF b.Text = EmptyStr THEN username ELSE b.Username,
     Size     |-> b.Size + StrLen(text)]

\* BufClear that leaves Text as it is
BufClear_KeepsText(b) == [Text |-> b.Text, Username |-> EmptyStr, Size |-> 0]

\* Clear: lines 36-43
BufClear(b) == [Text |-> EmptyStr, Username |-> EmptyStr, Size |-> 0]

\* IsEmpty answering that there is always something in the buffer
BufIsEmpty_Never(b) == FALSE

BufIsEmpty(b) == b.Size = 0

BufGetContents(b) == <<b.Text, b.Username, b.Size>>

-----------------------------------------------------------------------------
(* cmd/uploadbackup: constants, timestamp parsing, text extraction *)

softLimitChunkSize == 1000
hardLimitChunkSize == 2000
timeProximityLimit == 3600 * 2

Digits == <<"0", "1", "2", "3", "4", "5", "6", "7", "8", "9">>

IsDigit(ch) == \E d \in 1..10 : Digits[d] = ch

DigitValue(ch) == (CHOOSE d \in 1..10 : Digits[d] = ch) - 1

RECURSIVE ScanDigits(_, _)
\* the value of the leading decimal digits of s, after the digits read so far
ScanDigits(s, acc) ==
    IF s = <<>> \/ ~IsDigit(Head(s)) THEN acc
    ELSE ScanDigits(Tail(s), acc * 10 + DigitValue(Head(s)))

\* fmt.Sscanf(timestampStr, "%d", &timestamp): an optional sign and the leading
\* digits; with no digit to read the scan fails and timestamp stays 0.
\* timestampStr is a sequence of characters.
parseTimestamp(timestampStr) ==
    LET neg  == timestampStr # <<>> /\ Head(timestampStr) = "-"
        sgn  == timestampStr # <<>> /\ Head(timestampStr) \in {"-", "+"}
        body == IF sgn THEN Tail(timestampStr) ELSE timestampStr
    IN  IF body = <<>> \/ ~IsDigit(Head(body))
        THEN [timestamp |-> 0, err |-> TRUE]
        ELSE [timestamp |-> IF neg THEN 0 - ScanDigits(body, 0)
                            ELSE ScanDigits(body, 0),
              err |-> FALSE]

\* the loop over textParts stopping after the first part
JoinParts_FirstOnly(parts) ==
    IF parts = <<>> THEN EmptyStr
    ELSE LET part == Head(parts)
         IN  IF part.t = "string" THEN part.s
             ELSE IF part.t = "object" /\ part.hasText /\ part.textIsString
                  THEN part.s
                  ELSE EmptyStr

RECURSIVE JoinParts(_)
\* the loop over textParts of GetText: a string part is written as it is, an
\* object part contributes its "text" when that is a string, any other part nothing
JoinParts(parts) ==
    IF parts = <<>> THEN EmptyStr
    ELSE LET part == Head(parts)
             piece == IF part.t = "string" THEN part.s
                      ELSE IF part.t = "object" /\ part.hasText /\ part.textIsString
                           THEN part.s
                           ELSE EmptyStr
         IN  StrCat(piece, JoinParts(Tail(parts)))

\* Message.GetText on the raw "text" field.  The field holds what json.Unmarshal
\* of the backup left in it, a valid JSON value or nothing:
\*   [kind |-> "absent"]                 the field is missing (len(m.Text) = 0)
\*   [kind |-> "string", s |-> _]        a JSON string, s its decoded value
\*   [kind |-> "array", parts |-> _]     a JSON array
\*   [kind |-> "null"]                   the JSON value null
\*   [kind |-> "literal", raw |-> _]     a number, a boolean or an object,
\*                                       raw its bytes
\*   [kind |-> "brokenArray", raw |-> _] bytes that start with '[' and are no
\*                                       JSON array (a Message built by hand)
\* main.go: a quoted value is decoded as a string; anything else is decoded
\* into []interface{} (null decodes to the nil slice); when that fails, bytes
\* that do not start with '[' are returned as they are and the rest is an error
GetText(m) ==
    CASE m.Text.kind = "absent"      -> [text |-> EmptyStr, err |-> FALSE]
      [] m.Text.kind = "string"      -> [text |-> m.Text.s, err |-> FALSE]
      [] m.Text.kind = "array"       -> [text |-> JoinParts(m.Text.parts), err |-> FALSE]
      [] m.Text.kind = "null"        -> [text |-> EmptyStr, err |-> FALSE]
      [] m.Text.kind = "literal"     -> [text |-> m.Text.raw, err |-> FALSE]
      [] m.Text.kind = "brokenArray" -> [text |-> EmptyStr, err |-> TRUE]

RECURSIVE JoinEntities(_)
\* the loop over textArray of shared.go's GetText: an entity contributes its
\* "text" when that is a string; a null element is the nil map and has none
JoinEntities(parts) ==
    IF parts = <<>> THEN EmptyStr
    ELSE LET part == Head(parts)
             piece == IF part.t = "object" /\ part.hasText /\ part.textIsString
                      THEN part.s
                      ELSE EmptyStr
         IN  StrCat(piece, JoinEntities(Tail(parts)))

\* shared.go: the value is decoded into a string (null leaves it ""), else into
\* []map[string]interface{}, which takes objects and nulls only; when neither
\* works the error is returned
GetTextShared(m) ==
    CASE m.Text.kind = "absent"      -> [text |-> EmptyStr, err |-> FALSE]
      [] m.Text.kind = "string"      -> [text |-> m.Text.s, err |-> FALSE]
      [] m.Text.kind = "null"        -> [text |-> EmptyStr, err |-> FALSE]
      [] m.Text.kind = "array"       ->
            IF \A k \in 1..Len(m.Text.parts) : m.Text.parts[k].t \in {"object", "null"}
            THEN [text |-> JoinEntities(m.Text.parts), err |-> FALSE]
            ELSE [text |-> EmptyStr, err |-> TRUE]
      [] m.Text.kind = "literal"     -> [text |-> EmptyStr, err |-> TRUE]
      [] m.Text.kind = "brokenArray" -> [text |-> EmptyStr, err |-> TRUE]

\* the two files of cmd/uploadbackup that define Message.GetText
Builds == {"main.go", "shared.go"}

\* message.GetText() as main calls it: the copy the build holds
ExtractText(message) ==
    IF build = "shared.go" THEN GetTextShared(message) ELSE GetText(message)

-----------------------------------------------------------------------------
(* Inputs of the backup run *)

\* longest transcript drawn from the message alphabet
MaxMsgs == 3

user == StrCat(Run("u", 1), StrCat(Run("s", 1), StrCat(Run("e", 1), Run("r", 1))))

\* a text of the given length
textOfLength(length) == Run("a", length)

TextSizes == {0, 500, 1000, 2000}

\* date_unixtime values: unparsable, then two instants further apart than
\* timeProximityLimit
TimeStrings == {<<>>, <<"1", "0", "0">>, <<"7", "4", "0", "0">>}

\* a message without its ID
MessageShapes ==
    [Type : {"message"}, DateUnixtime : TimeStrings, From : {user},
     Text : {[kind |-> "string", s |-> textOfLength(n)] : n \in TextSizes}]
    \cup
    {[Type |-> "service", DateUnixtime |-> <<"1", "0", "0">>, From |-> EmptyStr,
      Text |-> [kind |-> "absent"]]}

\* IDs are the positions in the transcript, as in a Telegram export
WithIDs(shapes) ==
    [k \in 1..Len(shapes) |->
        [ID |-> k, Type |-> shapes[k].Type, DateUnixtime |-> shapes[k].DateUnixtime,
         From |-> shapes[k].From, Text |-> shapes[k].Text]]

\* createTestMessage(id, <a text of that size>, timestamp) of main_test.go
createTestMessage(id, size, timestampStr) ==
    [ID |-> id, Type |-> "message", DateUnixtime |-> timestampStr, From |-> user,
     Text |-> [kind |-> "string", s |-> textOfLength(size)]]

\* five 500-character messages 10 s apart: the first five of TestSoftLimitChunking
SoftLimitFixture ==
    << createTestMessage(1, 500, <<"1", "0", "0">>),
       createTestMessage(2, 500, <<"1", "1", "0">>),
       createTestMessage(3, 500, <<"1", "2", "0">>),
       createTestMessage(4, 500, <<"1", "3", "0">>),
       createTestMessage(5, 500, <<"1", "4", "0">>) >>

\* TestCombinedConditions: base 100, timeProximityLimit = 7200
CombinedFixture ==
    << createTestMessage(1, 1000, <<"1", "0", "0">>),
       createTestMessage(2, 1000, <<"1", "1", "0">>),
       createTestMessage(3, 500,  <<"7", "4", "0", "0">>),
       createTestMessage(4, 1500, <<"7", "5", "0", "0">>),
       createTestMessage(5, 1500, <<"7", "6", "0", "0">>),
       createTestMessage(6, 1500, <<"7", "7", "0", "0">>),
       createTestMessage(7, 500,  <<"7", "8", "0", "0">>) >>

Transcripts ==
    {WithIDs(s) : s \in UNION {[1..n -> MessageShapes] : n \in 0..MaxMsgs}}
    \cup {SoftLimitFixture, CombinedFixture}

\* what one processBuffer call can end in: both calls succeed, getEmbedding
\* fails, saveToQdrant fails
FlushOutcomes == {"ok", "embeddingError", "saveError"}

-----------------------------------------------------------------------------
(* cmd/uploadbackup: main *)

\* timeProximity with the window of 24 hours the constant had before
timeProximity_24h(last, current) ==
    IF last > 0 /\ current > 0
    THEN (current - last) <= 3600 * 24
    ELSE TRUE

\* timeProximity taking a timestamp of 0 as far from every other
timeProximity_UnknownIsFar(last, current) ==
    IF last > 0 /\ current > 0
    THEN (current - last) <= timeProximityLimit
    ELSE FALSE

\* timeProximity of the loop body
timeProximity(last, current) ==
    IF last > 0 /\ current > 0
    THEN (current - last) <= timeProximityLimit
    ELSE TRUE

\* ShouldProcess with "exceeds" read strictly for the hard limit
ShouldProcess_HardStrict(b, last, current) ==
    \/ b.Size > hardLimitChunkSize
    \/ (b.Size >= softLimitChunkSize /\ ~timeProximity(last, current))

\* ShouldProcess without the time-proximity condition on the soft limit
ShouldProcess_SoftAlone(b, last, current) ==
    \/ b.Size >= hardLimitChunkSize
    \/ b.Size >= softLimitChunkSize

\* the condition under which the loop body calls processBuffer
ShouldProcess(b, last, current) ==
    \/ b.Size >= hardLimitChunkSize
    \/ (b.Size >= softLimitChunkSize /\ ~timeProximity(last, current))

\* the check for an empty text that lets every text through
EmptyText_Never(text) == FALSE

\* if text == "": the message has nothing to add
EmptyText(text) == text = EmptyStr

\* the buffer after processBuffer when a failed chunk is kept for another try
AfterProcessBuffer_KeepOnError(b, outcome) ==
    IF outcome = "ok" THEN BufClear(b) ELSE b

\* the buffer after processBuffer when nothing clears it
AfterProcessBuffer_NoClear(b, outcome) == b

\* the buffer after the call of processBuffer in the loop: the error, if any,
\* is printed and msgBuffer.Clear() runs either way
AfterProcessBuffer(b, outcome) == BufClear(b)

\* the lines main prints for one processBuffer call
ErrorLines(line, id, outcome) ==
    IF outcome = "ok" THEN <<>> ELSE <<[line |-> line, id |-> id]>>

\* processBuffer storing the chunk under the ID of the last message it holds
processBuffer_UnderLastMember(b, messageID, outcome, at, kind, members) ==
    [id       |-> messages[members[Len(members)]].ID,
     text     |-> BufGetContents(b)[1],
     username |-> BufGetContents(b)[2],
     size     |-> b.Size,
     outcome  |-> outcome,
     at       |-> at,
     kind     |-> kind,
     members  |-> members,
     epoch    |-> clears]

\* processBuffer(buffer, messageID): what it read with GetContents, the ID it
\* stores under and how the two calls ended; at, kind and members are history
processBuffer(b, messageID, outcome, at, kind, members) ==
    [id       |-> messageID,
     text     |-> BufGetContents(b)[1],
     username |-> BufGetContents(b)[2],
     size     |-> b.Size,
     outcome  |-> outcome,
     at       |-> at,
     kind     |-> kind,
     members  |-> members,
     epoch    |-> clears]

\* the harness was not called
NotRun == [copy |-> "none", ids |-> <<>>]

\* no backup run, no single caller, no goroutines
BackupOff ==
    /\ messages = <<>>
    /\ i = 1
    /\ pc = "off"
    /\ lastMessageID = 0
    /\ lastTimestamp = 0
    /\ flushLog = <<>>
    /\ inBuffer = <<>>
    /\ printed = <<>>
    /\ build = "main.go"
    /\ processedChunks = NotRun

SeqOff == calls = 0 /\ added = <<>> /\ ret = [op |-> "none", value |-> <<>>]

ConcOff ==
    /\ mutex = FALSE
    /\ gpc = <<>>
    /\ remaining = <<>>
    /\ local = <<>>
    /\ completed = <<>>
    /\ result = <<>>

\* main of the bot is not followed
StartOff ==
    /\ env = <<>>
    /\ mpc = "off"
    /\ collection = "data"
    /\ startupCalls = <<>>

\* no bot
BotOff ==
    /\ allowedGroups = <<>>
    /\ now = 0
    /\ update = <<>>
    /\ requests = <<>>
    /\ sent = <<>>
    /\ returned = "none"
    /\ points = {}
    /\ hpc = <<>>
    /\ pointID = <<>>
    /\ StartOff

\* main of uploadbackup before the loop, on one parsed backup
Start(transcripts, builds) ==
    /\ messages \in transcripts
    /\ build \in builds
    /\ i = 1
    /\ pc = "loop"
    /\ msgBuffer = NewMessageBuffer
    /\ lastMessageID = 0
    /\ lastTimestamp = 0
    /\ flushLog = <<>>
    /\ inBuffer = <<>>
    /\ printed = <<>>
    /\ processedChunks = NotRun
    /\ clears = 0
    /\ SeqOff
    /\ ConcOff
    /\ BotOff

\* backups of plain-string messages, on which the two copies of GetText agree
Init == Start(Transcripts, {"main.go"})

\* one iteration of the range loop over backup.Messages
ProcessMessage ==
    /\ pc = "loop"
    /\ i <= Len(messages)
    /\ i' = i + 1
    /\ UNCHANGED <<messages, pc, build, processedChunks, seqVars, concVars, botVars>>
    /\ LET message == messages[i]
           got     == ExtractText(message)
           parsed  == parseTimestamp(message.DateUnixtime)
           currentTimestamp == IF parsed.err THEN 0 ELSE parsed.timestamp
           timestampLines ==
               IF parsed.err
               THEN <<[line |-> "Error parsing timestamp", id |-> message.ID]>>
               ELSE <<>>
       IN  IF message.Type # "message"
           THEN UNCHANGED <<msgBuffer, lastMessageID, lastTimestamp,
                            flushLog, inBuffer, printed, clears>>
           ELSE IF got.err
           THEN /\ printed' = Append(printed,
                        [line |-> "Error extracting text", id |-> message.ID])
                /\ UNCHANGED <<msgBuffer, lastMessageID, lastTimestamp,
                               flushLog, inBuffer, clears>>
           ELSE IF EmptyText(got.text)
           THEN UNCHANGED <<msgBuffer, lastMessageID, lastTimestamp,
                            flushLog, inBuffer, printed, clears>>
           ELSE /\ lastMessageID' = message.ID
                /\ lastTimestamp' = currentTimestamp
                /\ IF ~BufIsEmpty(msgBuffer)
                      /\ ShouldProcess(msgBuffer, lastTimestamp, currentTimestamp)
                   THEN \E outcome \in FlushOutcomes :
                          /\ flushLog' = Append(flushLog,
                                processBuffer(msgBuffer, lastMessageID', outcome,
                                              i, "mid", inBuffer))
                          /\ printed' = printed \o timestampLines \o
                                ErrorLines("Error processing buffer at message ID",
                                           lastMessageID', outcome)
                          /\ msgBuffer' = BufAdd(AfterProcessBuffer(msgBuffer, outcome),
                                                 message.From, got.text)
                          /\ inBuffer' = <<i>>
                          /\ clears' = clears + 1
                   ELSE /\ msgBuffer' = BufAdd(msgBuffer, message.From, got.text)
                        /\ inBuffer' = Append(inBuffer, i)
                        /\ printed' = printed \o timestampLines
                        /\ UNCHANGED <<flushLog, clears>>

\* after the loop: process what is left in the buffer
FinalFlush ==
    /\ pc = "loop"
    /\ i > Len(messages)
    /\ pc' = "done"
    /\ IF ~BufIsEmpty(msgBuffer)
       THEN \E outcome \in FlushOutcomes :
              /\ flushLog' = Append(flushLog,
                    processBuffer(msgBuffer, lastMessageID, outcome,
                                  i, "final", inBuffer))
              /\ printed' = printed \o
                    ErrorLines("Error processing final buffer", lastMessageID, outcome)
       ELSE UNCHANGED <<flushLog, printed>>
    /\ UNCHANGED <<messages, i, msgBuffer, lastMessageID, lastTimestamp,
                   inBuffer, build, processedChunks, clears, seqVars, concVars,
                   botVars>>

Next == ProcessMessage \/ FinalFlush

Spec == Init /\ [][Next]_vars

\* the same run, for the properties of what it hands to processBuffer and prints
SpecFlushes == Init /\ [][Next]_vars

\* the same run, for the order of what it hands to processBuffer
SpecOrder == Init /\ [][Next]_vars

\* the same run, for the chunks it has stored when it ends
SpecChunks == Init /\ [][Next]_vars

-----------------------------------------------------------------------------
(* The loop of the tests: setupTestBuffer, called on the messages of the run *)

\* the closure's locals before its loop
HarnessStart ==
    [buf |-> NewMessageBuffer, lastTimestamp |-> 0, lastID |-> 0, chunks |-> <<>>]

\* one iteration of the loop of setupTestBuffer in main_test.go: the message is
\* added first, then the buffer is processed under the message's ID when it
\* has grown over the hard limit, or to the soft limit with the time proximity
\* broken
TestIteration(st, message) ==
    LET got    == ExtractText(message)
        parsed == parseTimestamp(message.DateUnixtime)
        currentTimestamp == parsed.timestamp
        grown  == BufAdd(st.buf, message.From, got.text)
        currentSize == grown.Size
        timeProximityHeld ==
            IF currentSize > StrLen(got.text) /\ st.lastTimestamp > 0
            THEN (currentTimestamp - st.lastTimestamp) <= timeProximityLimit
            ELSE TRUE
        shouldProcess ==
            IF currentSize > hardLimitChunkSize THEN TRUE
            ELSE IF currentSize >= softLimitChunkSize /\ ~timeProximityHeld
                 THEN st.lastTimestamp > 0
                 ELSE FALSE
    IN  IF message.Type # "message" \/ got.text = EmptyStr THEN st
        ELSE IF shouldProcess
        THEN [buf |-> BufClear(grown), lastTimestamp |-> 0, lastID |-> message.ID,
              chunks |-> Append(st.chunks, message.ID)]
        ELSE [buf |-> grown, lastTimestamp |-> currentTimestamp,
              lastID |-> message.ID, chunks |-> st.chunks]

\* one iteration of the loop of setupTestBuffer in unnamed/part_005: the buffer
\* is processed under the ID of the message added before when the size with
\* the new message reaches a limit, then the message is added
EarlierTestIteration(st, message) ==
    LET got    == ExtractText(message)
        parsed == parseTimestamp(message.DateUnixtime)
        currentTimestamp == parsed.timestamp
        potentialSize == st.buf.Size + StrLen(got.text)
        timeProximityHeld ==
            IF st.lastTimestamp > 0 /\ currentTimestamp > 0
            THEN (currentTimestamp - st.lastTimestamp) <= timeProximityLimit
            ELSE TRUE
        process ==
            /\ ~BufIsEmpty(st.buf)
            /\ \/ potentialSize >= hardLimitChunkSize
               \/ potentialSize >= softLimitChunkSize /\ ~timeProximityHeld
    IN  IF message.Type # "message" \/ got.text = EmptyStr THEN st
        ELSE [buf |-> BufAdd(IF process THEN BufClear(st.buf) ELSE st.buf,
                             message.From, got.text),
              lastTimestamp |-> currentTimestamp,
              lastID |-> message.ID,
              chunks |-> IF process THEN Append(st.chunks, st.lastID)
                         ELSE st.chunks]

\* the copies of setupTestBuffer in the sources
HarnessCopies == {"main_test.go", "part_005"}

RECURSIVE HarnessLoop(_, _, _)
\* the loop over the first n messages
HarnessLoop(copy, msgs, n) ==
    IF n = 0 THEN HarnessStart
    ELSE IF copy = "main_test.go"
         THEN TestIteration(HarnessLoop(copy, msgs, n - 1), msgs[n])
         ELSE EarlierTestIteration(HarnessLoop(copy, msgs, n - 1), msgs[n])

\* the closure setupTestBuffer returns, applied to msgs: the loop, then what is
\* left in the buffer is processed under the ID of the last message added
setupTestBuffer(copy, msgs) ==
    LET st == HarnessLoop(copy, msgs, Len(msgs))
    IN  IF ~BufIsEmpty(st.buf) THEN Append(st.chunks, st.lastID) ELSE st.chunks

\* processedChunks := processMessages(messages)
RunHarness ==
    /\ pc \in {"loop", "done"}
    /\ processedChunks = NotRun
    /\ \E copy \in HarnessCopies :
          processedChunks' = [copy |-> copy, ids |-> setupTestBuffer(copy, messages)]
    /\ UNCHANGED <<messages, i, pc, lastMessageID, lastTimestamp, flushLog,
                   inBuffer, printed, build, bufVars, seqVars, concVars, botVars>>

NextHarness == ProcessMessage \/ FinalFlush \/ RunHarness

\* main and the harness on the same messages
SpecHarness == Init /\ [][NextHarness]_vars

-----------------------------------------------------------------------------
(* The same run on backups whose "text" fields take every JSON shape *)

\* longest transcript drawn from RawShapes
MaxRawMsgs == 2

\* one character as a Go string
Ch(c) == Run(c, 1)

\* elements of a "text" array: a bare string, a span with a string text, a span
\* whose text is a number, a span without text, a number, null
StringPart == [t |-> "string", s |-> Ch("b")]
SpanPart   == [t |-> "object", hasText |-> TRUE, textIsString |-> TRUE, s |-> Ch("c")]
NumberSpan == [t |-> "object", hasText |-> TRUE, textIsString |-> FALSE, s |-> EmptyStr]
BareSpan   == [t |-> "object", hasText |-> FALSE, textIsString |-> FALSE, s |-> EmptyStr]
NumberPart == [t |-> "number"]
NullPart   == [t |-> "null"]

\* the values json.Unmarshal can leave in Message.Text
RawTexts ==
    { [kind |-> "absent"],
      [kind |-> "null"],
      [kind |-> "string", s |-> EmptyStr],
      [kind |-> "string", s |-> Ch("a")],
      [kind |-> "literal", raw |-> StrCat(Ch("1"), Ch("2"))],
      [kind |-> "literal", raw |-> StrCat(Ch("{"), Ch("}"))],
      [kind |-> "array", parts |-> <<>>],
      [kind |-> "array", parts |-> <<SpanPart, NumberSpan, SpanPart>>],
      [kind |-> "array", parts |-> <<NumberSpan, BareSpan>>],
      [kind |-> "array", parts |-> <<BareSpan, NullPart, SpanPart>>],
      [kind |-> "array", parts |-> <<StringPart, SpanPart>>],
      [kind |-> "array", parts |-> <<SpanPart, NumberPart>>] }

RawShapes ==
    [Type : {"message"}, DateUnixtime : {<<"1", "0", "0">>}, From : {user},
     Text : RawTexts]

RawTranscripts ==
    {WithIDs(s) : s \in UNION {[1..n -> RawShapes] : n \in 0..MaxRawMsgs}}

InitExtract == Start(RawTranscripts, Builds)

SpecExtract == InitExtract /\ [][Next]_vars

-----------------------------------------------------------------------------
(* internal/buffer driven by one caller: any sequence of calls *)

\* number of Add and Clear calls in one sequence
MaxCalls == 4

\* usernames and texts the caller passes: "", one character, several characters
Usernames == {EmptyStr, Run("b", 1), user}

Texts == {EmptyStr, Run("a", 1), Run("h", 5)}

InitBuf ==
    /\ msgBuffer = NewMessageBuffer
    /\ clears = 0
    /\ calls = 0
    /\ added = <<>>
    /\ ret = [op |-> "NewMessageBuffer", value |-> <<>>]
    /\ BackupOff
    /\ ConcOff
    /\ BotOff

Add ==
    /\ calls < MaxCalls
    /\ calls' = calls + 1
    /\ \E username \in Usernames, text \in Texts :
          /\ msgBuffer' = BufAdd(msgBuffer, username, text)
          /\ added' = Append(added, <<username, text>>)
    /\ ret' = [op |-> "Add", value |-> <<>>]
    /\ UNCHANGED <<clears, backupVars, concVars, botVars>>

Clear ==
    /\ calls < MaxCalls
    /\ calls' = calls + 1
    /\ msgBuffer' = BufClear(msgBuffer)
    /\ added' = <<>>
    /\ clears' = clears + 1
    /\ ret' = [op |-> "Clear", value |-> <<>>]
    /\ UNCHANGED <<backupVars, concVars, botVars>>

IsEmpty ==
    /\ ret' = [op |-> "IsEmpty", value |-> <<BufIsEmpty(msgBuffer)>>]
    /\ UNCHANGED <<bufVars, calls, added, backupVars, concVars, botVars>>

GetContents ==
    /\ ret' = [op |-> "GetContents", value |-> BufGetContents(msgBuffer)]
    /\ UNCHANGED <<bufVars, calls, added, backupVars, concVars, botVars>>

NextBuf == Add \/ Clear \/ IsEmpty \/ GetContents

SpecBuf == InitBuf /\ [][NextBuf]_vars

-----------------------------------------------------------------------------
(* internal/buffer shared by goroutines: every method takes b.mutex, works   *)
(* on the fields one load or store at a time, and releases the mutex when it *)
(* returns.  As in TestMessageBuffer_Concurrency the producers call          *)
(* Add("user", "a"), here once each, while one more goroutine calls Clear    *)
(* and one GetContents.                                                      *)

\* producers, calls of Add per producer, calls of Clear
numGoroutines == 2
messagesPerGoroutine == 2
clearCalls == 1

Producers == 1..numGoroutines
Clearer == numGoroutines + 1
Reader == numGoroutines + 2
Goroutines == 1..(numGoroutines + 2)

NoLocals == [text |-> EmptyStr, username |-> EmptyStr, size |-> 0]

\* a method that does not take the mutex
CanLock_NoMutex(m) == TRUE

\* b.mutex.Lock() returns only while nobody holds the mutex
CanLock(m) == m = FALSE

\* the first statement of each goroutine's method after Lock
Entry(g) ==
    IF g \in Producers THEN "Add:check"
    ELSE IF g = Clearer THEN "Clear:Text" ELSE "GetContents:Text"

InitConc ==
    /\ msgBuffer = NewMessageBuffer
    /\ clears = 0
    /\ mutex = FALSE
    /\ gpc = [g \in Goroutines |-> "ready"]
    /\ remaining = [g \in Goroutines |-> IF g = Clearer THEN clearCalls ELSE 1]
    /\ local = [g \in Goroutines |-> NoLocals]
    /\ completed = <<>>
    /\ result = <<>>
    /\ BackupOff
    /\ SeqOff
    /\ BotOff

Goto(g, label) == gpc' = [gpc EXCEPT ![g] = label]

\* b.mutex.Lock()
Lock(g) ==
    /\ gpc[g] = "ready"
    /\ remaining[g] > 0
    /\ CanLock(mutex)
    /\ mutex' = TRUE
    /\ Goto(g, Entry(g))
    /\ UNCHANGED <<bufVars, remaining, local, completed, result,
                   backupVars, seqVars, botVars>>

\* if b.Text == ""
AddCheck(g) ==
    /\ gpc[g] = "Add:check"
    /\ Goto(g, IF msgBuffer.Text = EmptyStr THEN "Add:Username" ELSE "Add:loadText")
    /\ UNCHANGED <<bufVars, mutex, remaining, local, completed, result,
                   backupVars, seqVars, botVars>>

\* b.Username = username
AddSetUsername(g) ==
    /\ gpc[g] = "Add:Username"
    /\ msgBuffer' = [msgBuffer EXCEPT !.Username = user]
    /\ Goto(g, "Add:Text")
    /\ UNCHANGED <<clears, mutex, remaining, local, completed, result,
                   backupVars, seqVars, botVars>>

\* b.Text = fmt.Sprintf("%s: %s", username, text)
AddSetText(g) ==
    /\ gpc[g] = "Add:Text"
    /\ msgBuffer' = [msgBuffer EXCEPT !.Text = SprintfLine(user, Run("a", 1))]
    /\ Goto(g, "Add:loadSize")
    /\ UNCHANGED <<clears, mutex, remaining, local, completed, result,
                   backupVars, seqVars, botVars>>

\* b.Text += fmt.Sprintf("\n%s: %s", username, text): the load
AddLoadText(g) ==
    /\ gpc[g] = "Add:loadText"
    /\ local' = [local EXCEPT ![g].text = msgBuffer.Text]
    /\ Goto(g, "Add:storeText")
    /\ UNCHANGED <<bufVars, mutex, remaining, completed, result,
                   backupVars, seqVars, botVars>>

\* b.Text += fmt.Sprintf("\n%s: %s", username, text): the store
AddStoreText(g) ==
    /\ gpc[g] = "Add:storeText"
    /\ msgBuffer' = [msgBuffer EXCEPT
                        !.Text = StrCat(local[g].text,
                                        SprintfNextLine(user, Run("a", 1)))]
    /\ Goto(g, "Add:loadSize")
    /\ UNCHANGED <<clears, mutex, remaining, local, completed, result,
                   backupVars, seqVars, botVars>>

\* b.Size += len(text): the load
AddLoadSize(g) ==
    /\ gpc[g] = "Add:loadSize"
    /\ local' = [local EXCEPT ![g].size = msgBuffer.Size]
    /\ Goto(g, "Add:storeSize")
    /\ UNCHANGED <<bufVars, mutex, remaining, completed, result,
                   backupVars, seqVars, botVars>>

\* b.Size += len(text): the store
AddStoreSize(g) ==
    /\ gpc[g] = "Add:storeSize"
    /\ msgBuffer' = [msgBuffer EXCEPT !.Size = local[g].size + StrLen(Run("a", 1))]
    /\ Goto(g, "unlock")
    /\ UNCHANGED <<clears, mutex, remaining, local, completed, result,
                   backupVars, seqVars, botVars>>

\* b.Text = ""
ClearText(g) ==
    /\ gpc[g] = "Clear:Text"
    /\ msgBuffer' = [msgBuffer EXCEPT !.Text = EmptyStr]
    /\ Goto(g, "Clear:Username")
    /\ UNCHANGED <<clears, mutex, remaining, local, completed, result,
                   backupVars, seqVars, botVars>>

\* b.Username = ""
ClearUsername(g) ==
    /\ gpc[g] = "Clear:Username"
    /\ msgBuffer' = [msgBuffer EXCEPT !.Username = EmptyStr]
    /\ Goto(g, "Clear:Size")
    /\ UNCHANGED <<clears, mutex, remaining, local, completed, result,
                   backupVars, seqVars, botVars>>

\* b.Size = 0
ClearSize(g) ==
    /\ gpc[g] = "Clear:Size"
    /\ msgBuffer' = [msgBuffer EXCEPT !.Size = 0]
    /\ clears' = clears + 1
    /\ Goto(g, "unlock")
    /\ UNCHANGED <<mutex, remaining, local, completed, result,
                   backupVars, seqVars, botVars>>

\* return b.Text, b.Username, b.Size: the three loads, left to right
GetContentsText(g) ==
    /\ gpc[g] = "GetContents:Text"
    /\ local' = [local EXCEPT ![g].text = msgBuffer.Text]
    /\ Goto(g, "GetContents:Username")
    /\ UNCHANGED <<bufVars, mutex, remaining, completed, result,
                   backupVars, seqVars, botVars>>

GetContentsUsername(g) ==
    /\ gpc[g] = "GetContents:Username"
    /\ local' = [local EXCEPT ![g].username = msgBuffer.Username]
    /\ Goto(g, "GetContents:Size")
    /\ UNCHANGED <<bufVars, mutex, remaining, completed, result,
                   backupVars, seqVars, botVars>>

GetContentsSize(g) ==
    /\ gpc[g] = "GetContents:Size"
    /\ local' = [local EXCEPT ![g].size = msgBuffer.Size]
    /\ Goto(g, "unlock")
    /\ UNCHANGED <<bufVars, mutex, remaining, completed, result,
                   backupVars, seqVars, botVars>>

\* the deferred b.mutex.Unlock() and the return to the caller
Unlock(g) ==
    /\ gpc[g] = "unlock"
    /\ mutex' = FALSE
    /\ remaining' = [remaining EXCEPT ![g] = @ - 1]
    /\ Goto(g, IF remaining[g] > 1 THEN "ready" ELSE "done")
    /\ completed' = IF g \in Producers THEN Append(completed, "Add")
                    ELSE IF g = Clearer THEN Append(completed, "Clear")
                    ELSE completed
    /\ result' = IF g = Reader
                 THEN <<local[g].text, local[g].username, local[g].size>>
                 ELSE result
    /\ UNCHANGED <<bufVars, local,
                   backupVars, seqVars, botVars>>

NextConc ==
    \E g \in Goroutines :
        \/ Lock(g)
        \/ AddCheck(g) \/ AddSetUsername(g) \/ AddSetText(g)
        \/ AddLoadText(g) \/ AddStoreText(g)
        \/ AddLoadSize(g) \/ AddStoreSize(g)
        \/ ClearText(g) \/ ClearUsername(g) \/ ClearSize(g)
        \/ GetContentsText(g) \/ GetContentsUsername(g) \/ GetContentsSize(g)
        \/ Unlock(g)

SpecConc == InitConc /\ [][NextConc]_vars

-----------------------------------------------------------------------------
(* TestMessageBuffer_Concurrency: the producers alone, then, after           *)
(* wg.Wait(), one GetContents                                                *)

\* wg.Wait() returns
AllProducersDone == \A g \in Producers : gpc[g] = "done"

InitTest ==
    /\ msgBuffer = NewMessageBuffer
    /\ clears = 0
    /\ mutex = FALSE
    /\ gpc = [g \in Goroutines |-> IF g = Clearer THEN "done" ELSE "ready"]
    /\ remaining = [g \in Goroutines |->
                       IF g \in Producers THEN messagesPerGoroutine
                       ELSE IF g = Clearer THEN 0 ELSE 1]
    /\ local = [g \in Goroutines |-> NoLocals]
    /\ completed = <<>>
    /\ result = <<>>
    /\ BackupOff
    /\ SeqOff
    /\ BotOff

Produce ==
    \E g \in Producers :
        \/ Lock(g)
        \/ AddCheck(g) \/ AddSetUsername(g) \/ AddSetText(g)
        \/ AddLoadText(g) \/ AddStoreText(g)
        \/ AddLoadSize(g) \/ AddStoreSize(g)
        \/ Unlock(g)

ReadAfterWait ==
    /\ AllProducersDone
    /\ \/ Lock(Reader)
       \/ GetContentsText(Reader) \/ GetContentsUsername(Reader)
       \/ GetContentsSize(Reader)
       \/ Unlock(Reader)

NextTest == Produce \/ ReadAfterWait

SpecTest == InitTest /\ [][NextTest]_vars

-----------------------------------------------------------------------------
(* cmd/tgbot: the OnText handler, run on one message after the other *)

\* messages handled in one run of the bot
MaxUpdates == 2

restrictedAccessMessage ==
    GoString("Sorry, this bot is restricted to answer outside of specific groups, but it's open-source and self-hosted, you can always host your own instance of it at https://github.com/korjavin/ragtgbot")

\* b.Me.Username
MeUsername == GoString("bot")

\* "@" + b.Me.Username
Handle == StrCat(Run("@", 1), MeUsername)

\* isAllowedChat letting every chat through
isAllowedChat_Everyone(chatID, groups) == TRUE

\* isAllowedChat(chatID, allowedGroups): allowedGroups is a sequence of chat IDs
isAllowedChat(chatID, groups) ==
    IF Len(groups) = 0 THEN TRUE
    ELSE \E k \in 1..Len(groups) : chatID = groups[k]

\* the chats, senders and texts of the incoming messages
Chats == {1, 2}

Senders == {GoString("ann"), MeUsername}

LiveTexts == { GoString("hi"), GoString("@bot hi"), GoString(" hi @bot ") }

\* allowedGroups as main leaves it: no restriction, or chat 1 only
GroupLists == {<<>>, <<1>>}

\* elements of the "result" array of a search response.  An object carries a
\* payload, which is a map or not, with a "text" and a "username" that are
\* strings or not; the score is only logged.
Hit(username, text) ==
    [t |-> "object", payloadIsMap |-> TRUE, textIsString |-> TRUE, text |-> text,
     usernameIsString |-> TRUE, username |-> username]

ShortHit == Hit(GoString("ann"), GoString("yes"))

LongHit == Hit(GoString("bob"), Run("x", 60))

AnonymousHit ==
    [t |-> "object", payloadIsMap |-> TRUE, textIsString |-> TRUE,
     text |-> GoString("no"), usernameIsString |-> FALSE, username |-> EmptyStr]

NoTextHit ==
    [t |-> "object", payloadIsMap |-> TRUE, textIsString |-> FALSE, text |-> EmptyStr,
     usernameIsString |-> TRUE, username |-> GoString("ann")]

NoPayloadHit ==
    [t |-> "object", payloadIsMap |-> FALSE, textIsString |-> FALSE, text |-> EmptyStr,
     usernameIsString |-> FALSE, username |-> EmptyStr]

NotObjectHit ==
    [t |-> "other", payloadIsMap |-> FALSE, textIsString |-> FALSE, text |-> EmptyStr,
     usernameIsString |-> FALSE, username |-> EmptyStr]

\* the results used in the arrays below
Hits == {ShortHit, LongHit, AnonymousHit, NoTextHit, NoPayloadHit, NotObjectHit}

\* the limit of the search request: the most results a response carries
vectorSearchLimit == 5

\* result arrays: none, one, two or vectorSearchLimit well-formed results, and
\* arrays that hold a malformed element before or after a well-formed one
ResultArrays ==
    { <<>>,
      <<ShortHit>>,
      <<LongHit, ShortHit>>,
      <<LongHit, ShortHit, AnonymousHit, ShortHit, LongHit>>,
      <<AnonymousHit, NoTextHit>>,
      <<NoTextHit, ShortHit>>,
      <<NoPayloadHit, LongHit>>,
      <<NotObjectHit, ShortHit>>,
      <<ShortHit, NotObjectHit>> } \cap UNION {[1..n -> Hits] : n \in 0..vectorSearchLimit}

\* what the search request can come back with: no response, a status other
\* than 200, a body that is no JSON object, a body whose "result" is no array,
\* or a result array
SearchResponses ==
    {[kind |-> k, items |-> <<>>] :
        k \in {"transportError", "badStatus", "notJSON", "noResultArray"}}
    \cup {[kind |-> "results", items |-> items] : items \in ResultArrays}

\* searchQdrant: the conversion of the response into results
searchQdrant(resp) ==
    IF resp.kind # "results"
    THEN [results |-> <<>>, err |-> TRUE]
    ELSE IF \E k \in 1..Len(resp.items) : resp.items[k].t # "object"
    THEN [results |-> <<>>, err |-> TRUE]
    ELSE [results |-> resp.items, err |-> FALSE]

\* the two type assertions on result["payload"] and payload["text"]
WellFormed(hit) == hit.payloadIsMap /\ hit.textIsString

Unknown == GoString("Unknown")

\* payload["username"].(string), "Unknown" when that fails
UsernameOf(hit) == IF hit.usernameIsString THEN hit.username ELSE Unknown

RECURSIVE Snippets_Reversed(_)
\* the snippets, the last result first
Snippets_Reversed(similarMessages) ==
    IF similarMessages = <<>> THEN <<>>
    ELSE LET hit == Head(similarMessages)
         IN  IF WellFormed(hit)
             THEN Snippets_Reversed(Tail(similarMessages))
                  \o <<SprintfLine(UsernameOf(hit), hit.text)>>
             ELSE Snippets_Reversed(Tail(similarMessages))

RECURSIVE Snippets(_)
\* generateOpenAIAnswer: the snippets of the results that have a payload map
\* with a string text
Snippets(similarMessages) ==
    IF similarMessages = <<>> THEN <<>>
    ELSE LET hit == Head(similarMessages)
         IN  IF WellFormed(hit)
             THEN <<SprintfLine(UsernameOf(hit), hit.text)>>
                  \o Snippets(Tail(similarMessages))
             ELSE Snippets(Tail(similarMessages))

PromptHead == GoString("Using the following chat snippets, answer the question.\n\n")

PromptQuestion == GoString("\n\nQuestion: ")

PromptAnswer == GoString("\nAnswer:")

\* generateOpenAIAnswer: the prompt
Prompt(userQuestion, similarMessages) ==
    StrCat(PromptHead,
    StrCat(Join(Snippets(similarMessages), Run("\n", 1)),
    StrCat(PromptQuestion,
    StrCat(userQuestion, PromptAnswer))))

\* what the request to OpenAI can end in: an answer, or any of the errors
GenerationOutcomes ==
    { [err |-> TRUE, answer |-> EmptyStr],
      [err |-> FALSE, answer |-> GoString("42")],
      [err |-> FALSE, answer |-> EmptyStr] }

\* the bound of the loop over searchResults: if i >= 1 { break }
displayLimit == 1

\* the text shown for a result: its first 50 bytes and "..." when it is longer
DisplayText(text) ==
    IF StrLen(text) > 50 THEN StrCat(Prefix(text, 50), Run(".", 3)) ELSE text

RECURSIVE RelevantLines(_, _)
\* the loop over searchResults from index idx (0-based) on: the lines written
RelevantLines(searchResults, idx) ==
    IF idx >= Len(searchResults) \/ idx >= displayLimit THEN <<>>
    ELSE LET hit == searchResults[idx + 1]
         IN  IF WellFormed(hit)
             THEN <<StrCat(StrCat(Run("-", 1), Run(" ", 1)),
                      StrCat(SprintfLine(UsernameOf(hit), DisplayText(hit.text)),
                             Run("\n", 1)))>>
                  \o RelevantLines(searchResults, idx + 1)
             ELSE RelevantLines(searchResults, idx + 1)

DegradedNotice == GoString("I couldn't generate an AI answer due to an error.\n\n")

RelevantHead == GoString("Here are some relevant messages:\n")

NoRelevantMessages == GoString("No relevant messages found.\n")

\* the part of the reply that lists the relevant messages
RelevantMessages(searchResults) ==
    LET lines == RelevantLines(searchResults, 0)
    IN  StrCat(RelevantHead,
               IF lines = <<>> THEN NoRelevantMessages ELSE Join(lines, EmptyStr))

\* a reply made of the generated answer alone
FullResponse_AnswerOnly(generation, searchResults) == generation.answer

\* fullResponse.String()
FullResponse(generation, searchResults) ==
    StrCat(IF generation.err THEN DegradedNotice
           ELSE StrCat(generation.answer, Run("\n", 2)),
           RelevantMessages(searchResults))

QueryError == GoString("Error processing your query")

\* the query of a message that mentions the bot
QueryOf(text) == TrimSpace(ReplaceAll(text, Handle, EmptyStr))

InitBot ==
    /\ allowedGroups \in GroupLists
    /\ now = 0
    /\ update = <<>>
    /\ requests = <<>>
    /\ sent = <<>>
    /\ returned = "none"
    /\ points = {}
    /\ hpc = <<>>
    /\ pointID = <<>>
    /\ StartOff
    /\ msgBuffer = NewMessageBuffer
    /\ clears = 0
    /\ BackupOff
    /\ SeqOff
    /\ ConcOff

\* the handler returns with these calls made, these texts sent and this outcome
Return(u, reqs, texts, outcome, stored) ==
    /\ update' = u
    /\ requests' = reqs
    /\ sent' = texts
    /\ returned' = outcome
    /\ points' = stored

\* a handler that sends its text twice
ReturnSend_Twice(u, reqs, text) ==
    \E delivered \in BOOLEAN :
        Return(u, reqs, <<text, text>>, IF delivered THEN "nil" ELSE "error", points)

\* return c.Send(text): the handler returns what Send returns
ReturnSend(u, reqs, text) ==
    \E delivered \in BOOLEAN :
        Return(u, reqs, <<text>>, IF delivered THEN "nil" ELSE "error", points)

\* the query branch of the handler
Answer(u) ==
    LET query == QueryOf(u.text)
    IN  \E embedded \in BOOLEAN :
          LET embedding == [to |-> "getEmbeddings", arg |-> query, err |-> ~embedded]
          IN  IF ~embedded
              THEN ReturnSend(u, <<embedding>>, QueryError)
              ELSE \E resp \in SearchResponses :
                     LET found  == searchQdrant(resp)
                         search == [to |-> "searchQdrant", arg |-> resp,
                                    err |-> found.err]
                     IN  IF found.err
                         THEN ReturnSend(u, <<embedding, search>>, QueryError)
                         ELSE \E generation \in GenerationOutcomes :
                                ReturnSend(u,
                                    <<embedding, search,
                                      [to |-> "generateOpenAIAnswer",
                                       arg |-> Prompt(query, found.results),
                                       err |-> generation.err]>>,
                                    FullResponse(generation, found.results))

\* the storage branch telling the chat about a failure
Store_ReportsFailure(u) ==
    \E embedded \in BOOLEAN :
      LET embedding == [to |-> "getEmbeddings", arg |-> u.text, err |-> ~embedded]
      IN  IF ~embedded
          THEN ReturnSend(u, <<embedding>>, QueryError)
          ELSE \E saved \in BOOLEAN :
                 LET point == [id |-> now, text |-> u.text, username |-> u.sender]
                     upsert == [to |-> "saveToQdrant", arg |-> point, err |-> ~saved]
                 IN  IF saved
                     THEN Return(u, <<embedding, upsert>>, <<>>, "nil",
                                 {q \in points : q.id # point.id} \cup {point})
                     ELSE ReturnSend(u, <<embedding, upsert>>, QueryError)

\* the storage branch of the handler
Store(u) ==
    \E embedded \in BOOLEAN :
      LET embedding == [to |-> "getEmbeddings", arg |-> u.text, err |-> ~embedded]
      IN  IF ~embedded
          THEN Return(u, <<embedding>>, <<>>, "nil", points)
          ELSE \E saved \in BOOLEAN :
                 LET point == [id |-> now, text |-> u.text, username |-> u.sender]
                     upsert == [to |-> "saveToQdrant", arg |-> point, err |-> ~saved]
                 IN  Return(u, <<embedding, upsert>>, <<>>, "nil",
                            IF saved
                            THEN {q \in points : q.id # point.id} \cup {point}
                            ELSE points)

\* b.Handle(tele.OnText, ...): the handler on one incoming message
OnText ==
    /\ now < MaxUpdates
    /\ now' = now + 1
    /\ UNCHANGED <<startVars, allowedGroups, hpc, pointID, bufVars, backupVars, seqVars, concVars>>
    /\ \E chat \in Chats, sender \in Senders, text \in LiveTexts :
         LET u == [chat |-> chat, sender |-> sender, text |-> text]
         IN  IF ~isAllowedChat(chat, allowedGroups)
             THEN IF Contains(text, Handle)
                  THEN ReturnSend(u, <<>>, restrictedAccessMessage)
                  ELSE Return(u, <<>>, <<>>, "nil", points)
             ELSE IF Contains(text, Handle)
             THEN Answer(u)
             ELSE IF sender = MeUsername
             THEN Return(u, <<>>, <<>>, "nil", points)
             ELSE Store(u)

NextBot == OnText

SpecBot == InitBot /\ [][NextBot]_vars

-----------------------------------------------------------------------------
(* main of the bot: the environment, the collection, the handler, and the  *)
(* first message the handler runs on (SpecStartup)                         *)

\* values of TELEGRAM_BOT_TOKEN and OPENAI_API_KEY: unset or empty, or set
Credentials == {EmptyStr, GoString("k")}

\* values of TG_GROUP_LIST: unset, one ID, an ID between spaces, no ID at all,
\* an entry that is no ID beside an ID
GroupsLists ==
    {EmptyStr, GoString("1"), GoString(" 1 "), GoString("x"), GoString("x,1")}

\* what Qdrant holds under the collection's name: nothing, or a collection
\* whose info has no params map, no vectors map, an empty vectors map, a
\* vectors map without "data", or a vectors map with "data"
Collections ==
    {"absent", "noParams", "noVectors", "emptyVectors", "otherVector", "data"}

\* both required variables are set
CredentialsPresent_TokenOnly(e) == e.token # EmptyStr

\* the two checks of main: token == "" and openaiKey == ""
CredentialsPresent(e) == e.token # EmptyStr /\ e.openaiKey # EmptyStr

RECURSIVE Split(_, _)
\* strings.Split on bytes: the pieces of cs between the separators
Split(cs, sep) ==
    IF \A k \in DOMAIN cs : cs[k] # sep THEN <<cs>>
    ELSE LET first == CHOOSE k \in DOMAIN cs :
                          cs[k] = sep /\ \A j \in 1..(k - 1) : cs[j] # sep
         IN  <<SubSeq(cs, 1, first - 1)>> \o Split(SubSeq(cs, first + 1, Len(cs)), sep)

\* strconv.ParseInt(s, 10, 64) on short inputs: an optional sign, then digits
\* and nothing else
ParseInt(cs) ==
    LET sgn  == cs # <<>> /\ Head(cs) \in {"-", "+"}
        body == IF sgn THEN Tail(cs) ELSE cs
    IN  IF body = <<>> \/ \E k \in DOMAIN body : ~IsDigit(body[k])
        THEN [value |-> 0, err |-> TRUE]
        ELSE [value |-> IF cs[1] = "-" THEN 0 - ScanDigits(body, 0)
                        ELSE ScanDigits(body, 0),
              err |-> FALSE]

RECURSIVE ParseGroups(_)
\* the loop over the entries of TG_GROUP_LIST: the entries that parse are
\* appended, the others are logged and left out
ParseGroups(groups) ==
    IF groups = <<>> THEN <<>>
    ELSE LET parsed == ParseInt(TrimRight(TrimLeft(Head(groups))))
         IN  (IF parsed.err THEN <<>> ELSE <<parsed.value>>)
             \o ParseGroups(Tail(groups))

\* allowedGroups as main builds it from TG_GROUP_LIST
AllowedGroupsOf(groupsList) ==
    IF groupsList = EmptyStr THEN <<>>
    ELSE ParseGroups(Split(Chars(groupsList), ","))

\* the collection is deleted whatever its vectors configuration holds
Recreate_Always(info) == TRUE

\* createQdrantCollection deletes the collection: vectors is no map or is
\* empty, or it has no "data"
Recreate(info) == info \in {"noVectors", "emptyVectors", "otherVector"}

InitStartup ==
    /\ env \in [token : Credentials, openaiKey : Credentials, groupsList : GroupsLists]
    /\ mpc = "start"
    /\ collection \in Collections
    /\ startupCalls = <<>>
    /\ allowedGroups = <<>>
    /\ now = 0
    /\ update = <<>>
    /\ requests = <<>>
    /\ sent = <<>>
    /\ returned = "none"
    /\ points = {}
    /\ hpc = <<>>
    /\ pointID = <<>>
    /\ msgBuffer = NewMessageBuffer
    /\ clears = 0
    /\ BackupOff
    /\ SeqOff
    /\ ConcOff

\* main reads the two required variables; log.Fatal ends the process
CheckCredentials ==
    /\ mpc = "start"
    /\ mpc' = IF CredentialsPresent(env) THEN "parseGroups" ELSE "exited"
    /\ UNCHANGED <<env, collection, startupCalls, allowedGroups, now, update,
                   requests, sent, returned, points, hpc, pointID, bufVars,
                   backupVars, seqVars, concVars>>

\* main parses TG_GROUP_LIST
ParseAllowedGroups ==
    /\ mpc = "parseGroups"
    /\ allowedGroups' = AllowedGroupsOf(env.groupsList)
    /\ mpc' = "createQdrantCollection"
    /\ UNCHANGED <<env, collection, startupCalls, now, update, requests, sent,
                   returned, points, hpc, pointID, bufVars, backupVars, seqVars,
                   concVars>>

\* createQdrantCollection returns with these requests made: main goes on when
\* it returned nil, log.Fatalf ends the process otherwise
Returned(made, failed, state, stored) ==
    /\ startupCalls' = made
    /\ mpc' = IF failed THEN "exited" ELSE "NewBot"
    /\ collection' = state
    /\ points' = stored

\* the PUT request that creates the collection, after the requests made so far
Create(made, state, stored) ==
    \E created \in BOOLEAN :
        Returned(Append(made, [to |-> "PUT", err |-> ~created]), ~created,
                 IF created THEN "data" ELSE state, stored)

\* err := createQdrantCollection(collectionName)
CreateQdrantCollection ==
    /\ mpc = "createQdrantCollection"
    /\ UNCHANGED <<env, allowedGroups, now, update, requests, sent, returned, hpc,
                   pointID, bufVars, backupVars, seqVars, concVars>>
    /\ \E answered \in BOOLEAN, status \in {"200", "other"} :
         LET get == [to |-> "GET", err |-> ~answered]
         IN  IF ~answered
             THEN Returned(<<get>>, TRUE, collection, points)
             ELSE IF status = "200" /\ collection # "absent"
             THEN \E info \in {"error", collection} :
                    LET seen == <<get, [to |-> "getCollectionInfo", err |-> info = "error",
                                        info |-> info]>>
                    IN  IF info \in {"error", "noParams"}
                        THEN Create(seen, collection, points)
                        ELSE IF Recreate(info)
                        THEN \E deleted \in BOOLEAN :
                               LET delete == [to |-> "deleteQdrantCollection",
                                              err |-> ~deleted]
                               IN  IF deleted
                                   THEN Create(Append(seen, delete), "absent", {})
                                   ELSE Returned(Append(seen, delete), TRUE,
                                                 collection, points)
                        ELSE Returned(seen, FALSE, collection, points)
             ELSE Create(<<get>>, collection, points)

\* tele.NewBot(pref), then b.Handle(tele.OnText, ...) and b.Start()
StartBot ==
    /\ mpc = "NewBot"
    /\ \E created \in BOOLEAN : mpc' = IF created THEN "running" ELSE "exited"
    /\ UNCHANGED <<env, collection, startupCalls, allowedGroups, now, update,
                   requests, sent, returned, points, hpc, pointID, bufVars,
                   backupVars, seqVars, concVars>>

\* the poller hands the first message to the handler
Serve ==
    /\ mpc = "running"
    /\ returned = "none"
    /\ OnText

NextStartup ==
    \/ CheckCredentials
    \/ ParseAllowedGroups
    \/ CreateQdrantCollection
    \/ StartBot
    \/ Serve

SpecStartup == InitStartup /\ [][NextStartup]_vars

-----------------------------------------------------------------------------
(* Handlers of live messages running side by side: the storage branch, one *)
(* step per call (SpecWorkers)                                             *)

\* the handlers running at once, and the ticks of the clock while they run
numWorkers == 2

MaxTicks == 2

Workers == 1..numWorkers

\* the message each handler runs on: ordinary messages with different texts
LiveMessage(w) == [chat |-> 1, sender |-> GoString("ann"), text |-> Run("m", w)]

InitWorkers ==
    /\ allowedGroups \in GroupLists
    /\ now = 0
    /\ update = <<>>
    /\ requests = <<>>
    /\ sent = <<>>
    /\ returned = "none"
    /\ points = {}
    /\ hpc = [w \in Workers |-> "getEmbeddings"]
    /\ pointID = [w \in Workers |-> 0]
    /\ StartOff
    /\ msgBuffer = NewMessageBuffer
    /\ clears = 0
    /\ BackupOff
    /\ SeqOff
    /\ ConcOff

\* the handler passes the checks before the storage branch and calls
\* getEmbeddings, which answers or fails
Embed(w) ==
    /\ hpc[w] = "getEmbeddings"
    /\ isAllowedChat(LiveMessage(w).chat, allowedGroups)
    /\ ~Contains(LiveMessage(w).text, Handle)
    /\ LiveMessage(w).sender # MeUsername
    /\ \E embedded \in BOOLEAN :
         hpc' = [hpc EXCEPT ![w] = IF embedded THEN "UnixNano" ELSE "returned"]
    /\ UNCHANGED <<startVars, allowedGroups, now, update, requests, sent, returned, points,
                   pointID, bufVars, backupVars, seqVars, concVars>>

\* id := time.Now().UnixNano()
ReadClock(w) ==
    /\ hpc[w] = "UnixNano"
    /\ pointID' = [pointID EXCEPT ![w] = now]
    /\ hpc' = [hpc EXCEPT ![w] = "saveToQdrant"]
    /\ UNCHANGED <<startVars, allowedGroups, now, update, requests, sent, returned, points,
                   bufVars, backupVars, seqVars, concVars>>

\* saveToQdrant(id, embeddings, text, username): the upsert puts the point
\* under its ID, in the place of a point that has the same ID, or fails
Upsert(w) ==
    /\ hpc[w] = "saveToQdrant"
    /\ \E saved \in BOOLEAN :
         LET point == [id |-> pointID[w], text |-> LiveMessage(w).text,
                       username |-> LiveMessage(w).sender]
         IN  /\ points' = IF saved
                          THEN {q \in points : q.id # point.id} \cup {point}
                          ELSE points
             /\ hpc' = [hpc EXCEPT ![w] = IF saved THEN "stored" ELSE "returned"]
    /\ UNCHANGED <<startVars, allowedGroups, now, update, requests, sent, returned, pointID,
                   bufVars, backupVars, seqVars, concVars>>

\* the clock's reading moves on
Tick ==
    /\ now < MaxTicks
    /\ now' = now + 1
    /\ UNCHANGED <<startVars, allowedGroups, update, requests, sent, returned, points, hpc,
                   pointID, bufVars, backupVars, seqVars, concVars>>

NextWorkers ==
    \/ \E w \in Workers : Embed(w)
    \/ \E w \in Workers : ReadClock(w)
    \/ \E w \in Workers : Upsert(w)
    \/ Tick

SpecWorkers == InitWorkers /\ [][NextWorkers]_vars

-----------------------------------------------------------------------------
(* Vocabulary of the properties of the backup run *)

\* the extracted text and the timestamp (0 when unparsable) of the message at
\* position k of the transcript
TextOf(k) == ExtractText(messages[k]).text

TsOf(k) ==
    LET parsed == parseTimestamp(messages[k].DateUnixtime)
    IN  IF parsed.err THEN 0 ELSE parsed.timestamp

RECURSIVE SumLen(_)
\* total text length of the messages at the given positions
SumLen(positions) ==
    IF positions = <<>> THEN 0
    ELSE StrLen(TextOf(Head(positions))) + SumLen(Tail(positions))

RECURSIVE ExpectedText(_)
\* "<from>: <text>" of the messages at the given positions, one per line
ExpectedText(positions) ==
    IF positions = <<>> THEN EmptyStr
    ELSE IF Len(positions) = 1
         THEN StrCat(messages[positions[1]].From,
                     StrCat(Run(":", 1), StrCat(Run(" ", 1), TextOf(positions[1]))))
         ELSE StrCat(ExpectedText(SubSeq(positions, 1, Len(positions) - 1)),
                     StrCat(Run("\n", 1),
                            ExpectedText(<<positions[Len(positions)]>>)))

Last(seq) == seq[Len(seq)]

MidFlushes == {k \in DOMAIN flushLog : flushLog[k].kind = "mid"}

FlushesOfEpoch(e) == {k \in DOMAIN flushLog : flushLog[k].epoch = e}

\* both messages carry a usable (parsed, positive) timestamp and b comes more
\* than timeProximityLimit seconds after a
FarApart(a, b) ==
    /\ ~parseTimestamp(messages[a].DateUnixtime).err
    /\ ~parseTimestamp(messages[b].DateUnixtime).err
    /\ TsOf(a) > 0
    /\ TsOf(b) > 0
    /\ TsOf(b) - TsOf(a) > 3600 * 2

\* the timestamp difference of b to a, an unparsable timestamp counting as 0,
\* is within the proximity window
WithinWindow(a, b) == TsOf(b) - TsOf(a) <= 3600 * 2

-----------------------------------------------------------------------------
(* C1..C3, C7..C10: the chunking loop *)

\* C1: a non-empty message that meets a non-empty buffer with
\* currentSize + len(newText) >= hardLimit (2000) is preceded by a flush and a
\* clear, so it starts a new chunk.  As a state property: a chunk that holds two
\* or more messages got its last message while currentSize + len(newText) was
\* below the hard limit, so its size is below the hard limit.
C1_HardLimitOnProspectiveSize ==
    Len(inBuffer) >= 2 => msgBuffer.Size < 2000

C3_EachChunkFlushedOnce ==
    /\ \A e \in 0..(clears - 1) : Cardinality(FlushesOfEpoch(e)) = 1
    /\ \A k \in DOMAIN flushLog :
          /\ flushLog[k].members # <<>>
          /\ flushLog[k].size = SumLen(flushLog[k].members)
          /\ flushLog[k].text = ExpectedText(flushLog[k].members)
          /\ \A j \in DOMAIN flushLog :
                (j # k) =>
                    \A a \in DOMAIN flushLog[k].members :
                    \A b \in DOMAIN flushLog[j].members :
                        flushLog[k].members[a] # flushLog[j].members[b]
    /\ (pc # "done") => FlushesOfEpoch(clears) = {}
    /\ (pc = "done" /\ inBuffer # <<>>) =>
          /\ Cardinality(FlushesOfEpoch(clears)) = 1
          /\ Last(flushLog).kind = "final"
          /\ Last(flushLog).members = inBuffer
    /\ (pc = "done") =>
          \A p \in 1..Len(messages) :
              (messages[p].Type = "message" /\ ~ExtractText(messages[p]).err
                  /\ TextOf(p) # EmptyStr)
              => \E k \in DOMAIN flushLog :
                    \E a \in DOMAIN flushLog[k].members :
                        flushLog[k].members[a] = p

\* the run is over after a mid-stream flush and the final flush
C3_Witness ==
    /\ pc = "done"
    /\ Len(flushLog) >= 2
    /\ flushLog[1].kind = "mid"
    /\ Last(flushLog).kind = "final"

\* C7: between messages that are within the proximity window, reaching the soft
\* limit never triggers a flush: a mid-stream flush triggered by a message that
\* is within the window of the message added before it happens only under the
\* hard-limit rule (the buffer holds hardLimit characters or more).
C7_NoSoftFlushWithinProximity ==
    \A k \in MidFlushes :
        WithinWindow(Last(flushLog[k].members), flushLog[k].at)
            => flushLog[k].size >= 2000

\* a chunk went past the soft limit on a message within the window and was
\* flushed later, under the hard-limit rule, by a message within the window
C7_Witness ==
    \E k \in MidFlushes :
        LET members == flushLog[k].members
        IN  /\ Len(members) >= 2
            /\ WithinWindow(members[Len(members) - 1], Last(members))
            /\ SumLen(SubSeq(members, 1, Len(members) - 1)) >= 1000
            /\ WithinWindow(Last(members), flushLog[k].at)

\* C8: a message with a usable timestamp that arrives more than the proximity
\* window after the message added before it, while the buffer has reached the
\* soft limit, is preceded by a flush: no chunk holds such a message together
\* with its predecessor.
C8_SoftLimitFlushAfterGap ==
    /\ \A j \in 2..Len(inBuffer) :
          FarApart(inBuffer[j - 1], inBuffer[j])
              => SumLen(SubSeq(inBuffer, 1, j - 1)) < 1000
    /\ \A k \in DOMAIN flushLog :
       \A j \in 2..Len(flushLog[k].members) :
          FarApart(flushLog[k].members[j - 1], flushLog[k].members[j])
              => SumLen(SubSeq(flushLog[k].members, 1, j - 1)) < 1000

\* a chunk between the soft and the hard limit was flushed by a message that
\* came after a gap
C8_Witness ==
    \E k \in MidFlushes :
        /\ flushLog[k].size >= 1000
        /\ flushLog[k].size < 2000
        /\ FarApart(Last(flushLog[k].members), flushLog[k].at)
        /\ inBuffer = <<flushLog[k].at>>

\* C9: five 500-character messages 10 s apart produce exactly one mid-stream
\* flush, triggered by the 4th message (which would bring the size to 2000).
C9_FlushAtFourthMessage ==
    (messages = SoftLimitFixture /\ pc = "done") =>
        /\ Cardinality(MidFlushes) = 1
        /\ \A k \in MidFlushes : flushLog[k].at = 4

\* C10: the 7-message transcript yields exactly 3 flushed chunks, identified by
\* messages 3, 5 and 7.
C10_ThreeChunks ==
    (messages = CombinedFixture /\ pc = "done") =>
        /\ Len(flushLog) = 3
        /\ [k \in 1..3 |-> flushLog[k].id] = <<3, 5, 7>>

-----------------------------------------------------------------------------
(* C11..C16: what the loop hands to processBuffer *)

\* the message at position p is one the loop adds to the buffer
Eligible(p) ==
    /\ messages[p].Type = "message"
    /\ ~ExtractText(messages[p]).err
    /\ TextOf(p) # EmptyStr

\* the positions held by the chunks flushed so far and by the buffer
Kept ==
    UNION {{flushLog[k].members[a] : a \in DOMAIN flushLog[k].members} :
              k \in DOMAIN flushLog}
    \cup {inBuffer[a] : a \in DOMAIN inBuffer}

\* the date_unixtime of the message at position p cannot be parsed
Unparsable(p) == parseTimestamp(messages[p].DateUnixtime).err

\* C11: a mid-stream flush is attributed to the ID of the message whose arrival
\* triggered it, the end-of-stream flush to the ID of the last message added.
C11_FlushAttribution ==
    \A k \in DOMAIN flushLog :
        /\ flushLog[k].kind = "mid"
              => flushLog[k].id = messages[flushLog[k].at].ID
        /\ flushLog[k].kind = "final"
              => flushLog[k].id = messages[Last(flushLog[k].members)].ID

\* a chunk of two messages was flushed by a third, and the rest at the end
C11_Witness ==
    /\ pc = "done"
    /\ \E k \in MidFlushes :
          /\ Len(flushLog[k].members) = 2
          /\ flushLog[k].id = messages[flushLog[k].at].ID
    /\ Last(flushLog).kind = "final"
    /\ Last(flushLog).id = lastMessageID

\* C12: a chunk is identified by the ID of the last message it contains: the
\* chunk reported under N holds message N and no later message.
C12_ChunkEndsAtItsID ==
    \A k \in DOMAIN flushLog :
        /\ \E a \in DOMAIN flushLog[k].members :
              messages[flushLog[k].members[a]].ID = flushLog[k].id
        /\ \A a \in DOMAIN flushLog[k].members :
              messages[flushLog[k].members[a]].ID <= flushLog[k].id

\* C13: processBuffer is never called on an empty chunk: every call has
\* something in it, the guard of a flush is false on a buffer that has just
\* been flushed and cleared, and a run that ends with nothing in the buffer
\* makes no final call.
C13_NoEmptyChunk ==
    /\ \A k \in DOMAIN flushLog :
          /\ flushLog[k].size > 0
          /\ flushLog[k].text # EmptyStr
          /\ flushLog[k].members # <<>>
    /\ \A outcome \in FlushOutcomes :
          BufIsEmpty(AfterProcessBuffer(msgBuffer, outcome))
    /\ (pc = "done" /\ inBuffer = <<>>) => FlushesOfEpoch(clears) = {}

\* a run over messages none of which had text has ended without a flush
C13_Witness ==
    /\ pc = "done"
    /\ Len(messages) >= 2
    /\ inBuffer = <<>>
    /\ flushLog = <<>>

\* C14: a message whose extracted text is empty is skipped entirely: the step
\* that handles it leaves the buffer, the last message ID, the last timestamp
\* and the flushes as they were, and no flush carries its ID.
C14_EmptyTextSkipped ==
    /\ [](\A k \in DOMAIN flushLog : \A p \in DOMAIN messages :
            (messages[p].ID = flushLog[k].id) => TextOf(p) # EmptyStr)
    /\ [][ (/\ pc = "loop"
            /\ i <= Len(messages)
            /\ messages[i].Type = "message"
            /\ ~ExtractText(messages[i]).err
            /\ TextOf(i) = EmptyStr)
           => UNCHANGED <<msgBuffer, lastMessageID, lastTimestamp, flushLog,
                          inBuffer, clears>> ]_vars

\* a message without text has been passed while the buffer held a chunk that
\* had reached the hard limit
C14_Witness ==
    /\ inBuffer # <<>>
    /\ msgBuffer.Size >= 2000
    /\ Last(inBuffer) < i - 1
    /\ messages[i - 1].Type = "message"
    /\ TextOf(i - 1) = EmptyStr

\* C15: a message whose timestamp cannot be parsed counts as within proximity:
\* a flush it triggers is a hard-limit flush, the error is printed, and the
\* message is added like any other.
C15_UnparsableTimestamp ==
    /\ \A k \in MidFlushes :
          Unparsable(flushLog[k].at) => flushLog[k].size >= 2000
    /\ LET kept == Kept
       IN  \A p \in 1..(i - 1) :
             (Unparsable(p) /\ Eligible(p)) =>
                 /\ p \in kept
                 /\ \E n \in DOMAIN printed :
                       printed[n] = [line |-> "Error parsing timestamp",
                                     id |-> messages[p].ID]

\* a message with an unparsable timestamp joined a chunk that had reached the
\* soft limit, and another one flushed a chunk that had reached the hard limit
C15_Witness ==
    /\ \E k \in MidFlushes : Unparsable(flushLog[k].at)
    /\ \E a \in DOMAIN inBuffer :
          /\ a >= 2
          /\ Unparsable(inBuffer[a])
          /\ SumLen(SubSeq(inBuffer, 1, a - 1)) >= 1000

\* the calls of processBuffer that failed
Failed == {k \in DOMAIN flushLog : flushLog[k].outcome # "ok"}

\* the lines printed for failed calls of processBuffer
FlushErrorLines ==
    {n \in DOMAIN printed :
        printed[n].line \in {"Error processing buffer at message ID",
                             "Error processing final buffer"}}

\* C16: when the embedding or the upsert fails during a flush the error is
\* printed, the failed chunk is not sent again (every later call carries exactly
\* the messages added after it) and the run goes on to the end.
C16_FailedFlushNotRetried ==
    /\ Cardinality(FlushErrorLines) = Cardinality(Failed)
    /\ \A k \in Failed :
          /\ \E n \in FlushErrorLines : printed[n].id = flushLog[k].id
          /\ \A j \in DOMAIN flushLog :
                j > k =>
                    /\ flushLog[j].text = ExpectedText(flushLog[j].members)
                    /\ \A a \in DOMAIN flushLog[k].members :
                       \A b \in DOMAIN flushLog[j].members :
                           flushLog[k].members[a] # flushLog[j].members[b]
          /\ flushLog[k].kind = "mid" =>
                /\ flushLog[k].at \in Kept
                /\ msgBuffer.Text = ExpectedText(inBuffer)
    /\ (pc = "done") =>
          LET kept == Kept
          IN  \A p \in DOMAIN messages : Eligible(p) => p \in kept

\* the run is over, a mid-stream flush failed in the embedding call, and a
\* later call went through
C16_Witness ==
    /\ pc = "done"
    /\ \E k \in Failed :
          /\ flushLog[k].kind = "mid"
          /\ flushLog[k].outcome = "embeddingError"
          /\ \E j \in DOMAIN flushLog : j > k /\ flushLog[j].outcome = "ok"

-----------------------------------------------------------------------------
(* C17: "text" fields that are neither a string nor an array *)

\* C17: a message whose text field is present but is neither a JSON string nor
\* an array makes GetText report a parse failure; the loop prints it, skips the
\* message (it reaches no chunk) and goes on.
C17_OtherShapesRejected ==
    \A p \in 1..(i - 1) :
        messages[p].Text.kind \in {"literal", "null"} =>
            /\ ExtractText(messages[p]).err
            /\ p \notin Kept
            /\ \E n \in DOMAIN printed :
                  printed[n] = [line |-> "Error extracting text",
                                id |-> messages[p].ID]

-----------------------------------------------------------------------------
(* C4..C6: the MessageBuffer *)

RECURSIVE SumAdded(_)
\* sum of len(text) over a sequence of <<username, text>> pairs
SumAdded(pairs) ==
    IF pairs = <<>> THEN 0 ELSE StrLen(Head(pairs)[2]) + SumAdded(Tail(pairs))

\* C4: after any sequence of Add and Clear calls the size GetContents returns is
\* the sum of len(text) over the Add calls made since the most recent Clear.
C4_SizeIsSumSinceClear ==
    ret.op = "GetContents" => ret.value[3] = SumAdded(added)

\* GetContents after a Clear and then Adds of texts of different lengths
C4_Witness ==
    /\ ret.op = "GetContents"
    /\ clears > 0
    /\ Len(added) >= 2
    /\ added[1][2] # added[2][2]
    /\ ret.value[3] = 6

\* C5: N producers each calling Add M times with a one-character text leave the
\* buffer with size N*M, whatever the interleaving: that is the size in the
\* buffer once all of them are done, and the size GetContents returns then.
C5_NoLostUpdates ==
    /\ AllProducersDone => msgBuffer.Size = numGoroutines * messagesPerGoroutine
    /\ result # <<>> => result[3] = numGoroutines * messagesPerGoroutine

\* GetContents has returned after the producers took turns at the buffer
C5_Witness ==
    /\ AllProducersDone
    /\ result # <<>>
    /\ result[3] > 1
    /\ Len(completed) = numGoroutines * messagesPerGoroutine

RECURSIVE AfterCalls(_)
\* the buffer after the given Add("user", "a") and Clear calls, made one by one
AfterCalls(ops) ==
    IF ops = <<>> THEN NewMessageBuffer
    ELSE LET before == AfterCalls(SubSeq(ops, 1, Len(ops) - 1))
         IN  IF Last(ops) = "Add"
             THEN BufAdd(before, user, Run("a", 1))
             ELSE BufClear(before)

\* C6: the triple GetContents returns is the buffer after some whole number of
\* completed Add and Clear calls, never fields from before and after one call.
C6_GetContentsIndivisible ==
    result # <<>> =>
        \E n \in 0..Len(completed) :
            result = BufGetContents(AfterCalls(SubSeq(completed, 1, n)))

\* GetContents returned a non-empty buffer between two calls of the others
C6_Witness ==
    /\ result # <<>>
    /\ result[3] >= 1
    /\ \E g \in Producers : gpc[g] # "done"
    /\ Len(completed) >= 1

-----------------------------------------------------------------------------
(* C18..C20: the message handler of the bot *)

\* the handler has run on a message
Handled == returned # "none"

\* the message handled last mentions the bot and comes from an allowed chat
Query == Handled /\ isAllowedChat(update.chat, allowedGroups) /\ Contains(update.text, Handle)

\* the request of the last run to the named function, <<>> when it made none
RequestTo(fn) ==
    IF \E k \in DOMAIN requests : requests[k].to = fn
    THEN requests[CHOOSE k \in DOMAIN requests : requests[k].to = fn]
    ELSE <<>>

\* C18: a message from an allowed chat that contains the bot's handle gets
\* exactly one reply, and a non-empty one, whichever of the embedding, search
\* and generation calls fail; when the generation fails the reply is the
\* degraded-mode notice followed by the list of relevant messages.
C18_QueryAlwaysAnswered ==
    Query =>
        /\ Len(sent) = 1
        /\ sent[1] # EmptyStr
        /\ (RequestTo("generateOpenAIAnswer") # <<>>
              /\ RequestTo("generateOpenAIAnswer").err)
           => sent[1] = StrCat(DegradedNotice,
                    RelevantMessages(RequestTo("searchQdrant").arg.items))

\* the generation failed after a search that found a well-formed result, and
\* the reply was delivered
C18_Witness ==
    /\ Query
    /\ RequestTo("generateOpenAIAnswer") # <<>>
    /\ RequestTo("generateOpenAIAnswer").err
    /\ RequestTo("searchQdrant").arg.items = <<LongHit, ShortHit>>
    /\ returned = "nil"
    /\ Len(sent) = 1

RECURSIVE UsableSnippets(_)
\* "<username>: <text>" of the elements of a result array that are objects
\* with a payload map and a string text, in their order
UsableSnippets(items) ==
    IF items = <<>> THEN <<>>
    ELSE IF Head(items).t = "object" /\ WellFormed(Head(items))
         THEN <<SprintfLine(UsernameOf(Head(items)), Head(items).text)>>
              \o UsableSnippets(Tail(items))
         ELSE UsableSnippets(Tail(items))

\* C19: a malformed element of the search response (not an object, without a
\* payload map, without a string text) is skipped and the others are used: when
\* the response carries a result array the search does not fail, the query is
\* not answered with the error reply, and the prompt holds the snippets of all
\* well-formed elements.
C19_MalformedResultsSkipped ==
    (Query /\ RequestTo("searchQdrant") # <<>>
           /\ RequestTo("searchQdrant").arg.kind = "results")
    => /\ ~RequestTo("searchQdrant").err
       /\ sent # <<QueryError>>
       /\ RequestTo("generateOpenAIAnswer") # <<>>
       /\ RequestTo("generateOpenAIAnswer").arg =
             StrCat(PromptHead,
             StrCat(Join(UsableSnippets(RequestTo("searchQdrant").arg.items),
                         Run("\n", 1)),
             StrCat(PromptQuestion,
             StrCat(QueryOf(update.text), PromptAnswer))))

\* C20: a message sent by the bot itself is ignored, whatever its text: the
\* handler calls no service and sends nothing, and no point of the collection
\* carries the bot's name.
C20_OwnMessagesIgnored ==
    /\ (Handled /\ update.sender = MeUsername) =>
          /\ requests = <<>>
          /\ sent = <<>>
    /\ \A point \in points : point.username # MeUsername

-----------------------------------------------------------------------------
(* C21..C24: the handler on restricted chats, on storage failures, and the *)
(* snippets of a reply                                                     *)

\* an allow-list is configured and the chat of the message handled last is not
\* on it
OffTheList ==
    /\ Handled
    /\ Len(allowedGroups) > 0
    /\ \A k \in DOMAIN allowedGroups : allowedGroups[k] # update.chat

\* C21: with a non-empty allow-list, a message from a chat that is not on it
\* makes the handler call none of the services; it sends the restricted-access
\* notice, once, if the text contains the bot's handle, and nothing otherwise.
C21_RestrictedChat ==
    OffTheList =>
        /\ requests = <<>>
        /\ Contains(update.text, Handle) => sent = <<restrictedAccessMessage>>
        /\ ~Contains(update.text, Handle) => sent = <<>>

\* after a message was stored, the bot was addressed from a chat off the list
\* and sent the notice; the collection is as it was
C21_Witness ==
    /\ OffTheList
    /\ Contains(update.text, Handle)
    /\ sent = <<restrictedAccessMessage>>
    /\ points # {}

\* the last run took the storage branch: it asked for the embedding of the
\* whole text
StorePath ==
    /\ Handled
    /\ requests # <<>>
    /\ requests[1].to = "getEmbeddings"
    /\ ~Contains(update.text, Handle)

\* C22: on the store path a failure of the embedding call or of the upsert
\* produces no reply and no handler error: nothing is sent and the handler
\* returns nil.
C22_StorageFailureSilent ==
    (StorePath /\ requests[Len(requests)].err) =>
        /\ sent = <<>>
        /\ returned = "nil"

\* the upsert of a message failed and left the collection without it
C22_Witness ==
    /\ StorePath
    /\ Len(requests) = 2
    /\ requests[2].to = "saveToQdrant"
    /\ requests[2].err
    /\ returned = "nil"
    /\ \A point \in points : point.id # requests[2].arg.id

\* the last run went as far as the generation request: the search of the query
\* succeeded
Generated == Query /\ RequestTo("generateOpenAIAnswer") # <<>>

\* the results the search of the last run returned
Found == RequestTo("searchQdrant").arg.items

\* the elements of items at the positions in chosen, in the order of items
Pick(items, chosen) ==
    LET positions == SelectSeq([k \in 1..Len(items) |-> k], LAMBDA k : k \in chosen)
    IN  [j \in 1..Len(positions) |-> items[positions[j]]]

\* the line of the reply for a result: "- <username>: <text cut at 50>\n"
ListedLine(hit) ==
    StrCat(GoString("- "),
           StrCat(SprintfLine(UsernameOf(hit), DisplayText(hit.text)), Run("\n", 1)))

\* the reply lists exactly the results at the positions in chosen, in the order
\* of the search, after the answer or the notice that there is none
RepliedWith(chosen) ==
    LET listed == Pick(Found, chosen)
        lines  == [j \in 1..Len(listed) |-> ListedLine(listed[j])]
        list   == StrCat(RelevantHead,
                         IF lines = <<>> THEN NoRelevantMessages
                         ELSE Join(lines, EmptyStr))
    IN  \E generation \in GenerationOutcomes :
          sent = <<StrCat(IF generation.err THEN DegradedNotice
                          ELSE StrCat(generation.answer, Run("\n", 2)),
                          list)>>

\* C23: the snippets of the prompt and the lines of the reply are in the order
\* of the search results: the prompt joins the snippets of all well-formed
\* results in that order, and the reply lists a selection of the well-formed
\* results in that order, each formatted and cut, none moved.
C23_SearchOrderKept ==
    Generated =>
        /\ RequestTo("generateOpenAIAnswer").arg =
              StrCat(PromptHead,
              StrCat(Join(UsableSnippets(Found), Run("\n", 1)),
              StrCat(PromptQuestion,
              StrCat(QueryOf(update.text), PromptAnswer))))
        /\ \E chosen \in SUBSET {k \in DOMAIN Found : WellFormed(Found[k])} :
              RepliedWith(chosen)

\* a query whose search returned two well-formed results with different texts,
\* the longer first, and whose reply lists the first
C23_Witness ==
    /\ Generated
    /\ Found = <<LongHit, ShortHit>>
    /\ UsableSnippets(Found)[1] # UsableSnippets(Found)[2]
    /\ RepliedWith({1})

\* C24: when the search returns at least five well-formed results and the
\* answer is generated, the reply holds the answer and lists the first five
\* results.
C24_TopFiveListed ==
    (/\ Generated
     /\ ~RequestTo("generateOpenAIAnswer").err
     /\ Len(Found) >= 5
     /\ \A k \in 1..5 : WellFormed(Found[k]))
    => RepliedWith(1..5)

-----------------------------------------------------------------------------
(* C25: the point IDs of messages stored side by side *)

\* C25: two different messages that were stored never have the same point ID,
\* also when their handlers run at the same time, and each of them is in the
\* collection: none was overwritten by the other.
C25_DistinctPointIDs ==
    \A v, w \in DOMAIN hpc :
        (v # w /\ hpc[v] = "stored" /\ hpc[w] = "stored") =>
            /\ pointID[v] # pointID[w]
            /\ \E q \in points : q.text = LiveMessage(v).text
            /\ \E q \in points : q.text = LiveMessage(w).text

-----------------------------------------------------------------------------
(* C26..C28: the author and the emptiness of the MessageBuffer under any    *)
(* sequence of calls                                                        *)

\* C26: the author the buffer holds is the author passed to the first Add since
\* the last Clear (or since creation), whatever authors later Adds pass, and ""
\* when there was no Add since then.
C26_AuthorOfFirstAdd ==
    msgBuffer.Username = IF added = <<>> THEN EmptyStr ELSE added[1][1]

\* after a Clear, an Add by one author and an Add by another: the first is held
C26_Witness ==
    /\ clears > 0
    /\ Len(added) >= 2
    /\ added[1][1] # added[2][1]
    /\ added[2][1] # EmptyStr
    /\ msgBuffer.Username = added[1][1]

\* C27: in every state the author field is "" if and only if the buffer is
\* empty, that is, IsEmpty returns true.
C27_AuthorEmptyIffBufferEmpty ==
    (msgBuffer.Username = EmptyStr) <=> BufIsEmpty(msgBuffer)

\* C28: IsEmpty returns true on a new buffer and right after Clear, and false
\* after any Add until the next Clear.
C28_IsEmptyUntilAdd ==
    ret.op = "IsEmpty" => (ret.value[1] <=> added = <<>>)

-----------------------------------------------------------------------------
(* C29: the order of the chunks of a backup run *)

\* C29: chunks are flushed in arrival order: a chunk holds its messages in the
\* order of the input, its text is their lines in that order, and when chunk A
\* is flushed before chunk B every message of A precedes every message of B in
\* the input.
C29_FlushedInArrivalOrder ==
    /\ \A k \in DOMAIN flushLog :
          LET members == flushLog[k].members
          IN  /\ \A a, b \in DOMAIN members : a < b => members[a] < members[b]
              /\ flushLog[k].text = ExpectedText(members)
    /\ \A k, j \in DOMAIN flushLog :
          k < j =>
              /\ flushLog[k].at <= flushLog[j].at
              /\ \A a \in DOMAIN flushLog[k].members, b \in DOMAIN flushLog[j].members :
                    flushLog[k].members[a] < flushLog[j].members[b]

\* two chunks were flushed, the first with two messages of different texts
C29_Witness ==
    /\ Len(flushLog) = 2
    /\ Len(flushLog[1].members) = 2
    /\ TextOf(flushLog[1].members[1]) # TextOf(flushLog[1].members[2])
    /\ flushLog[2].members # <<>>

-----------------------------------------------------------------------------
(* C30: the text extracted from strings and from sequences of spans *)

\* the text field holds a sequence of spans: an array whose elements are objects
SpanSequence(raw) ==
    /\ raw.kind = "array"
    /\ \A k \in DOMAIN raw.parts : raw.parts[k].t = "object"

RECURSIVE SpanTexts(_)
\* the texts of the spans that have a string text, one after the other
SpanTexts(parts) ==
    IF parts = <<>> THEN EmptyStr
    ELSE StrCat(IF Head(parts).hasText /\ Head(parts).textIsString
                THEN Head(parts).s ELSE EmptyStr,
                SpanTexts(Tail(parts)))

\* the run got this text from the message at position p, without an error: no
\* extraction error was printed for it, and it is in a chunk exactly when the
\* text is not empty
Extracted(p, text) ==
    /\ ExtractText(messages[p]) = [text |-> text, err |-> FALSE]
    /\ \A n \in DOMAIN printed :
          printed[n] # [line |-> "Error extracting text", id |-> messages[p].ID]
    /\ p \in Kept <=> text # EmptyStr

\* C30: a string text is extracted as it is; from a sequence of spans the texts
\* of the spans that have a string text are extracted, joined in the order of
\* the sequence; the other spans add nothing and raise no error, and a sequence
\* without such a span gives "".
C30_TextOfStringsAndSpans ==
    \A p \in 1..(i - 1) :
        LET raw == messages[p].Text
        IN  /\ raw.kind = "string" => Extracted(p, raw.s)
            /\ SpanSequence(raw) => Extracted(p, SpanTexts(raw.parts))

\* the run of the build with shared.go's GetText has extracted "cc" from two
\* spans around a span whose text is a number, "" from spans without a string
\* text, and is done
C30_Witness ==
    /\ pc = "done"
    /\ build = "shared.go"
    /\ Len(messages) = 2
    /\ messages[1].Text = [kind |-> "array", parts |-> <<SpanPart, NumberSpan, SpanPart>>]
    /\ messages[2].Text = [kind |-> "array", parts |-> <<NumberSpan, BareSpan>>]
    /\ Extracted(1, StrCat(Ch("c"), Ch("c")))
    /\ Extracted(2, EmptyStr)

-----------------------------------------------------------------------------
(* C32, C36, C38: what a run of the handler returns, lists and does *)

\* C32: the handler never returns an error to the transport, whatever fails:
\* the embedding, the search, the generation, the upsert or the sending of the
\* reply.
C32_HandlerNeverFails ==
    Handled => returned = "nil"

\* C36: when the search returns at least one well-formed result, wherever it
\* sits in the list, the reply lists at least one result and does not say that
\* no relevant messages were found.
C36_WellFormedResultListed ==
    (Generated /\ \E k \in DOMAIN Found : WellFormed(Found[k])) =>
        \E chosen \in SUBSET {k \in DOMAIN Found : WellFormed(Found[k])} :
            chosen # {} /\ RepliedWith(chosen)

\* the requests of the last run that went to the named function
RequestsTo(fn) == {k \in DOMAIN requests : requests[k].to = fn}

\* C38: a message leads to at most one reply and at most one upsert and never
\* to both: a message handled as a query is not written to the store, and a
\* message handled as storage gets no reply.
C38_ReplyOrUpsert ==
    Handled =>
        /\ Len(sent) <= 1
        /\ Cardinality(RequestsTo("saveToQdrant")) <= 1
        /\ sent = <<>> \/ RequestsTo("saveToQdrant") = {}
        /\ Query => RequestsTo("saveToQdrant") = {}
        /\ StorePath => sent = <<>>

\* a query was answered with one reply and nothing was upserted for it, after
\* an earlier message was stored
C38_Witness ==
    /\ Query
    /\ Len(sent) = 1
    /\ RequestsTo("saveToQdrant") = {}
    /\ Cardinality(points) = 1

-----------------------------------------------------------------------------
(* C33, C34: the chunks a backup run stores *)

\* the IDs of the messages of the backup are pairwise distinct
DistinctIDs ==
    \A p, q \in DOMAIN messages : p # q => messages[p].ID # messages[q].ID

\* C33: in a run on messages with pairwise distinct IDs no two chunks are
\* stored under the same point ID, so no chunk overwrites an earlier one; the
\* final flush does not use the ID of the last mid-stream flush.
C33_DistinctFlushIDs ==
    DistinctIDs =>
        \A k, j \in DOMAIN flushLog :
            (k < j /\ flushLog[k].outcome = "ok" /\ flushLog[j].outcome = "ok")
                => flushLog[k].id # flushLog[j].id

RECURSIVE MembersUpTo(_)
\* the members of the first n flushes, in flush order
MembersUpTo(n) ==
    IF n = 0 THEN <<>> ELSE MembersUpTo(n - 1) \o flushLog[n].members

\* the positions of the messages with type "message" and a non-empty text, in
\* input order
EligiblePositions ==
    SelectSeq([p \in 1..Len(messages) |-> p], LAMBDA p : Eligible(p))

\* C34: when the run is over and no flush failed, the chunks in flush order hold
\* every entry of type "message" with a non-empty text exactly once and in input
\* order, and nothing else: no other entry, no message twice, none missing;
\* each chunk's text is the lines of its messages.
C34_EveryMessageOnce ==
    (pc = "done" /\ Failed = {}) =>
        /\ MembersUpTo(Len(flushLog)) = EligiblePositions
        /\ \A k \in DOMAIN flushLog :
              flushLog[k].text = ExpectedText(flushLog[k].members)

\* a run that stored two chunks without a failure and passed over an entry that
\* is no message or has no text
C34_Witness ==
    /\ pc = "done"
    /\ Failed = {}
    /\ Len(flushLog) = 2
    /\ Len(EligiblePositions) < Len(messages)
    /\ MembersUpTo(2) = EligiblePositions

-----------------------------------------------------------------------------
(* C35: the loop of the tests against the loop of main *)

\* the IDs main has called processBuffer with, in order
FlushIDs == [k \in DOMAIN flushLog |-> flushLog[k].id]

\* C35: for every sequence of messages the loop of setupTestBuffer and the loop
\* of main give the same sequence of flush IDs.
C35_HarnessMatchesMain ==
    (pc = "done" /\ processedChunks # NotRun) => processedChunks.ids = FlushIDs

-----------------------------------------------------------------------------
(* C31, C37, C39: the start of the bot *)

\* TELEGRAM_BOT_TOKEN or OPENAI_API_KEY is missing
CredentialMissing == env.token = EmptyStr \/ env.openaiKey = EmptyStr

\* C31: when a required credential is missing the process ends at startup:
\* main's first step takes it to its exit, and it has neither parsed the group
\* list, nor sent a request about the collection, nor started the bot, nor
\* handled a message.
C31_MissingCredentialIsFatal ==
    /\ [](CredentialMissing =>
            /\ mpc \in {"start", "exited"}
            /\ startupCalls = <<>>
            /\ allowedGroups = <<>>
            /\ ~Handled)
    /\ [][(CredentialMissing /\ mpc = "start") => mpc' = "exited"]_vars

\* the process has ended for the lack of the OpenAI key alone, with a group
\* list set and no collection there
C31_Witness ==
    /\ env.token # EmptyStr
    /\ env.openaiKey = EmptyStr
    /\ env.groupsList # EmptyStr
    /\ collection = "absent"
    /\ mpc = "exited"

\* the chat IDs validly listed in TG_GROUP_LIST
ListedChats ==
    LET listed == AllowedGroupsOf(env.groupsList)
    IN  {listed[k] : k \in DOMAIN listed}

\* C37: when TG_GROUP_LIST is set to a non-empty value, a message from a chat
\* that is not one of the validly listed IDs is neither stored nor answered,
\* also when entries of the list, or all of them, are no chat IDs: the handler
\* calls no service and sends at most the restricted-access notice.
C37_ListSetMeansRestricted ==
    (Handled /\ env.groupsList # EmptyStr /\ update.chat \notin ListedChats) =>
        /\ requests = <<>>
        /\ points = {}
        /\ sent \in {<<>>, <<restrictedAccessMessage>>}

\* the requests createQdrantCollection made to the named function
StartupCallsTo(fn) == {k \in DOMAIN startupCalls : startupCalls[k].to = fn}

\* what getCollectionInfo reported, "none" when it was not called
ReportedInfo ==
    IF StartupCallsTo("getCollectionInfo") = {} THEN "none"
    ELSE startupCalls[CHOOSE k \in StartupCallsTo("getCollectionInfo") : TRUE].info

\* C39: a collection whose reported configuration has a vector "data" is
\* neither deleted nor created again; the collection is deleted only when its
\* vectors configuration is missing, empty or without "data"; a failed delete
\* ends the startup without a create request.
C39_CollectionKeptOrRecreated ==
    /\ ReportedInfo = "data" =>
          /\ StartupCallsTo("deleteQdrantCollection") = {}
          /\ StartupCallsTo("PUT") = {}
          /\ collection = "data"
    /\ StartupCallsTo("deleteQdrantCollection") # {} =>
          ReportedInfo \in {"noVectors", "emptyVectors", "otherVector"}
    /\ \A k \in StartupCallsTo("deleteQdrantCollection") :
          startupCalls[k].err =>
              /\ StartupCallsTo("PUT") = {}
              /\ mpc = "exited"

\* the bot runs on a collection that had a vector of another name: it was
\* deleted and created again
C39_Witness ==
    /\ mpc = "running"
    /\ ReportedInfo = "otherVector"
    /\ \E k \in StartupCallsTo("deleteQdrantCollection") : ~startupCalls[k].err
    /\ \E k \in StartupCallsTo("PUT") : ~startupCalls[k].err
    /\ collection = "data"

=============================================================================
